---- MODULE Spec2Model ----
(***************************************************************************)
(* A model of the Tenable documentation bridge: the bounded LRU/TTL cache *)
(* (src/src/tools/search.ts), the keyword index and its search            *)
(* (src/src/utils/indexer.ts), the search tool (src/src/tools/search.ts)  *)
(* and the page-read tool with its 404 fallback (src/unnamed/part_000).   *)
(*                                                                         *)
(* Strings whose characters matter (queries, keywords, host names) are    *)
(* sequences of one-character strings; opaque strings (cache keys, cached *)
(* values) are TLA+ strings.                                               *)
(***************************************************************************)
EXTENDS Integers, Sequences, FiniteSets, TLC

VARIABLES lru, now, op, lastUse, expiredGot, searchIndex, initPc, call, initLog,
          pageCache, reads, lastRead, lastFallback, lastExpiry, reply, calc

cacheVars == <<lru, now, op, lastUse, expiredGot>>

searchVars == <<searchIndex, initPc, call, initLog>>

readVars == <<pageCache, reads, lastRead>>

handlerVars == <<reply>>

logVars == <<lastFallback, lastExpiry>>

calcVars == <<calc>>

vars == <<lru, now, op, lastUse, expiredGot, searchIndex, initPc, call, initLog, pageCache, reads,
          lastRead, lastFallback, lastExpiry, reply, calc>>

----------------------------------------------------------------------------
(* Bounds of the model. *)

\* last clock value
MaxTime == 2
\* largest hit counter a get is allowed to reach
MaxHits == 1
\* most links on the first seed page
MaxHead == 2
\* most links of the run of like links on the second seed page
MaxPad == 10
\* most links on the second seed page when initializeIndex calls run at once
MaxLinks == 2
\* how many times the clock moves past the ttl of the page cache
MaxDays == 1

(* Program constants. *)

\* options.maxSize || 100
DefaultMaxSize == 100
\* options.ttl || 24 * 60 * 60 * 1000
DefaultTtl == 86400000
\* the maxSize of the page cache
PageCacheMaxSize == 100
\* the ttl of the page cache: 24 * 60 * 60 * 1000
PageCacheTtl == 86400000

----------------------------------------------------------------------------
(* Generic helpers. *)

\* JavaScript's undefined, as a cache key or a returned value
Undefined == "<undefined>"

\* the keys the cache is driven with: the empty string is a legal Map key
Keys == {"", "a", "b"}

\* the maxSize options the cache is constructed with
CapOptions == {1, 2}

\* the ttl options the cache is constructed with, in clock ticks
TtlOptions == {1}

\* the values stored
Values == {"v1", "v2"}

\* Array.prototype.indexOf: the first position of x in s, 0 when there is none
\* (JavaScript's -1)
IndexOf(s, x) ==
  IF \E i \in 1..Len(s) : s[i] = x
  THEN CHOOSE i \in 1..Len(s) : s[i] = x /\ \A j \in 1..(i - 1) : s[j] # x
  ELSE 0

\* Array.prototype.splice(index, 1) at a 1-based position
SpliceOne(s, i) == SubSeq(s, 1, i - 1) \o SubSeq(s, i + 1, Len(s))

\* the elements of a sequence
Range(s) == {s[i] : i \in 1..Len(s)}

\* how many positions of s hold x
Occurrences(s, x) == Cardinality({i \in 1..Len(s) : s[i] = x})

\* Map.prototype.delete on a function
MapDelete(m, k) == [x \in (DOMAIN m) \ {k} |-> m[x]]

\* Map.prototype.set on a function
MapSet(m, k, e) == [x \in (DOMAIN m) \cup {k} |-> IF x = k THEN e ELSE m[x]]

\* the empty Map
EmptyMap == [x \in {} |-> 0]

\* truthiness of a string or undefined: '' and undefined are falsy
Truthy(s) == s # Undefined /\ s # ""

\* a boolean result as a string
Bool(b) == IF b THEN "true" ELSE "false"

----------------------------------------------------------------------------
(* LRUCache: each method is an operator from the object's state C (and the *)
(* value t of Date.now()) to the new state st and the returned value ret.  *)

\* new LRUCache(options): 0 stands for an option that is absent (or 0)
LRUCache(options) ==
  [cache |-> EmptyMap,
   maxSize |-> IF options.maxSize # 0 THEN options.maxSize ELSE DefaultMaxSize,
   ttl |-> IF options.ttl # 0 THEN options.ttl ELSE DefaultTtl,
   accessOrder |-> <<>>]

\* delete(key)
delete(C, key) ==
  LET index == IndexOf(C.accessOrder, key)
  IN [st |-> [C EXCEPT !.cache = MapDelete(C.cache, key),
                       !.accessOrder = IF index # 0 THEN SpliceOne(@, index) ELSE @],
      ret |-> Bool(key \in DOMAIN C.cache)]

\* updateAccessOrder(key)
updateAccessOrder(C, key) ==
  LET index == IndexOf(C.accessOrder, key)
  IN IF index # 0
     THEN [C EXCEPT !.accessOrder = Append(SpliceOne(@, index), key)]
     ELSE C

\* now - entry.timestamp > this.ttl
Expired(C, key, t) == t - C.cache[key].timestamp > C.ttl

\* get(key) without the expiry check
get_noExpiry(C, key, t) ==
  IF key \notin DOMAIN C.cache
  THEN [st |-> C, ret |-> Undefined]
  ELSE LET U == updateAccessOrder(C, key)
       IN [st |-> [U EXCEPT !.cache[key].hits = @ + 1],
           ret |-> C.cache[key].data]

\* get(key)
get(C, key, t) ==
  IF key \notin DOMAIN C.cache
  THEN [st |-> C, ret |-> Undefined]
  ELSE IF Expired(C, key, t)
  THEN [st |-> delete(C, key).st, ret |-> Undefined]
  ELSE LET U == updateAccessOrder(C, key)
       IN [st |-> [U EXCEPT !.cache[key].hits = @ + 1],
           ret |-> C.cache[key].data]

\* the eviction step of set: accessOrder.shift(), then cache.delete(lruKey)
\* only if lruKey is truthy
EvictLru(C) ==
  LET lruKey == IF C.accessOrder = <<>> THEN Undefined ELSE Head(C.accessOrder)
      shifted == IF C.accessOrder = <<>> THEN <<>> ELSE Tail(C.accessOrder)
  IN [C EXCEPT !.accessOrder = shifted,
               !.cache = IF Truthy(lruKey) THEN MapDelete(@, lruKey) ELSE @]

\* set(key, value) without the delete of a key that exists
set_noDeleteFirst(C, key, value, t) ==
  LET C2 == IF Cardinality(DOMAIN C.cache) >= C.maxSize THEN EvictLru(C) ELSE C
  IN [st |-> [C2 EXCEPT
                !.cache = MapSet(@, key, [data |-> value, timestamp |-> t, hits |-> 0]),
                !.accessOrder = Append(@, key)],
      ret |-> Undefined]

\* set(key, value)
set(C, key, value, t) ==
  LET C1 == IF key \in DOMAIN C.cache THEN delete(C, key).st ELSE C
      C2 == IF Cardinality(DOMAIN C1.cache) >= C1.maxSize THEN EvictLru(C1) ELSE C1
  IN [st |-> [C2 EXCEPT
                !.cache = MapSet(@, key, [data |-> value, timestamp |-> t, hits |-> 0]),
                !.accessOrder = Append(@, key)],
      ret |-> Undefined]

\* clear()
clear(C) == [st |-> [C EXCEPT !.cache = EmptyMap, !.accessOrder = <<>>], ret |-> Undefined]

\* has(key)
has(C, key, t) ==
  IF key \notin DOMAIN C.cache
  THEN [st |-> C, ret |-> Bool(FALSE)]
  ELSE IF Expired(C, key, t)
  THEN [st |-> delete(C, key).st, ret |-> Bool(FALSE)]
  ELSE [st |-> C, ret |-> Bool(TRUE)]

\* the keys cleanup() collects
expiredKeys(C, t) == {k \in DOMAIN C.cache : Expired(C, k, t)}

\* delete(key) for every key of a set, one after the other
RECURSIVE DeleteAll(_, _)
DeleteAll(C, ks) ==
  IF ks = {} THEN C
  ELSE LET k == CHOOSE x \in ks : TRUE
       IN DeleteAll(delete(C, k).st, ks \ {k})

\* cleanup() that removes the expired entries from the map alone
cleanup_mapOnly(C, t) ==
  [st |-> [C EXCEPT !.cache = [k \in (DOMAIN C.cache) \ expiredKeys(C, t) |-> C.cache[k]]],
   cnt |-> Cardinality(expiredKeys(C, t))]

\* cleanup()
cleanup(C, t) ==
  [st |-> DeleteAll(C, expiredKeys(C, t)), cnt |-> Cardinality(expiredKeys(C, t))]

----------------------------------------------------------------------------
(* The cache driven by arbitrary calls. op is the last call made on the    *)
(* cache and what it returned (for a set, also the clock value it read);   *)
(* lastUse lists the keys the map holds by their last set or successful    *)
(* get, oldest first; expiredGot holds the keys for which a get found an   *)
(* expired entry and that were not set since.                              *)

NoOp == [name |-> "new", key |-> Undefined, value |-> Undefined, at |-> 0,
         ret |-> Undefined, cnt |-> 0]

Touch(s, k) ==
  LET i == IndexOf(s, k) IN Append(IF i # 0 THEN SpliceOne(s, i) ELSE s, k)

\* the subsequence of s of the keys in ks
RECURSIVE Keep(_, _)
Keep(s, ks) ==
  IF s = <<>> THEN <<>>
  ELSE IF Head(s) \in ks THEN <<Head(s)>> \o Keep(Tail(s), ks) ELSE Keep(Tail(s), ks)

\* no call made yet
NoCall == [fn |-> "none", query |-> <<>>, outcome |-> "ok", results |-> <<>>,
           accessed |-> {}]

\* the readPage calls that may be in progress at once
Calls == {1, 2}

\* no document (JavaScript's null)
NullDoc == [url |-> <<>>, title |-> "<null>", content |-> <<>>]

\* a readPage call not made yet
NoRead == [fn |-> "readPage", pc |-> "idle", input |-> <<>>, url |-> <<>>,
           outcome |-> "none", result |-> NullDoc, status |-> 0, fallback |-> "none",
           fetches |-> 0, cacheReads |-> 0, cacheWrites |-> 0,
           maxContentLength |-> 0]

\* no fallback document stored yet
NoFallback == [url |-> <<>>, doc |-> NullDoc, at |-> 0, replaced |-> FALSE]

\* no expired entry removed yet
NoExpiry == [by |-> {}, failed |-> FALSE]

\* const pageCache = new LRUCache({maxSize: 100, ttl: 24 * 60 * 60 * 1000})
NewPageCache == LRUCache([maxSize |-> PageCacheMaxSize, ttl |-> PageCacheTtl])

\* no tool request answered yet. A reply is the request (the tool name, the
\* type and the value of its argument), how the handler ended (kind: a payload
\* returned, or an error thrown out of it), the class of the error caught
\* (cause, "" when there is none) and the payload
NoReply == [name |-> "", type |-> "undefined", arg |-> <<>>, kind |-> "none",
            cause |-> "", isError |-> FALSE, code |-> "", message |-> "",
            details |-> "", results |-> <<>>, doc |-> NullDoc]

\* no function applied: calc is a function of the program, the value it is
\* applied to, and the values of its successive applications
NoCalc == [fn |-> "none", input |-> <<>>, out |-> <<>>]

\* the page-read variables of a behaviour that reads no page
ReadIdle ==
  /\ pageCache = NewPageCache
  /\ reads = [c \in Calls |-> NoRead]
  /\ lastRead = NoRead
  /\ lastFallback = NoFallback
  /\ lastExpiry = NoExpiry
  /\ reply = NoReply

\* the initializeIndex calls that may be in progress at once
InitCalls == {1, 2}

\* no build of the index yet: how many times buildIndex was started, how many
\* times _searchIndex was assigned, and the allEntries of the last build
NoLog == [builds |-> 0, sets |-> 0, allEntries |-> <<>>, fetched |-> <<>>]

\* the search variables of a behaviour that makes no search
SearchIdle ==
  /\ searchIndex = [built |-> FALSE]
  /\ initPc = [i \in InitCalls |-> "idle"]
  /\ call = NoCall
  /\ initLog = NoLog

CacheInit ==
  /\ \E m \in CapOptions, l \in TtlOptions : lru = LRUCache([maxSize |-> m, ttl |-> l])
  /\ now = 0
  /\ op = NoOp
  /\ lastUse = <<>>
  /\ expiredGot = {}
  /\ SearchIdle
  /\ ReadIdle
  /\ calc = NoCalc

Set(k, v) ==
  /\ lru' = set(lru, k, v, now).st
  /\ op' = [NoOp EXCEPT !.name = "set", !.key = k, !.value = v, !.at = now]
  /\ lastUse' = Keep(Touch(lastUse, k), DOMAIN lru'.cache)
  /\ expiredGot' = expiredGot \ {k}
  /\ UNCHANGED <<now, searchVars, readVars, handlerVars, logVars, calcVars>>

Get(k) ==
  /\ k \in DOMAIN lru.cache => lru.cache[k].hits < MaxHits
  /\ lru' = get(lru, k, now).st
  /\ op' = [NoOp EXCEPT !.name = "get", !.key = k, !.ret = get(lru, k, now).ret]
  /\ lastUse' = Keep(IF k \in DOMAIN lru.cache /\ ~Expired(lru, k, now)
                     THEN Touch(lastUse, k) ELSE lastUse, DOMAIN lru'.cache)
  /\ expiredGot' = IF k \in DOMAIN lru.cache /\ Expired(lru, k, now)
                   THEN expiredGot \cup {k} ELSE expiredGot
  /\ UNCHANGED <<now, searchVars, readVars, handlerVars, logVars, calcVars>>

Has(k) ==
  /\ lru' = has(lru, k, now).st
  /\ op' = [NoOp EXCEPT !.name = "has", !.key = k, !.ret = has(lru, k, now).ret]
  /\ lastUse' = Keep(lastUse, DOMAIN lru'.cache)
  /\ UNCHANGED <<now, expiredGot, searchVars, readVars, handlerVars, logVars, calcVars>>

Delete(k) ==
  /\ lru' = delete(lru, k).st
  /\ op' = [NoOp EXCEPT !.name = "delete", !.key = k, !.ret = delete(lru, k).ret]
  /\ lastUse' = Keep(lastUse, DOMAIN lru'.cache)
  /\ UNCHANGED <<now, expiredGot, searchVars, readVars, handlerVars, logVars, calcVars>>

Clear ==
  /\ lru' = clear(lru).st
  /\ op' = [NoOp EXCEPT !.name = "clear"]
  /\ lastUse' = Keep(lastUse, DOMAIN lru'.cache)
  /\ UNCHANGED <<now, expiredGot, searchVars, readVars, handlerVars, logVars, calcVars>>

Cleanup ==
  /\ lru' = cleanup(lru, now).st
  /\ op' = [NoOp EXCEPT !.name = "cleanup", !.cnt = cleanup(lru, now).cnt]
  /\ lastUse' = Keep(lastUse, DOMAIN lru'.cache)
  /\ UNCHANGED <<now, expiredGot, searchVars, readVars, handlerVars, logVars, calcVars>>

\* Date.now() advances between calls
Tick ==
  /\ now < MaxTime
  /\ now' = now + 1
  /\ UNCHANGED <<lru, op, lastUse, expiredGot, searchVars, readVars, handlerVars, logVars, calcVars>>

CacheNext ==
  \/ \E k \in Keys, v \in Values : Set(k, v)
  \/ \E k \in Keys : Get(k)
  \/ \E k \in Keys : Has(k)
  \/ \E k \in Keys : Delete(k)
  \/ Clear
  \/ Cleanup
  \/ Tick

CacheSpec == CacheInit /\ [][CacheNext]_vars

----------------------------------------------------------------------------
(* Claims about the cache. *)

\* C1: whatever calls were made, the key->entry map never holds more than
\* maxSize entries.
C1_SizeWithinMaxSize == Cardinality(DOMAIN lru.cache) <= lru.maxSize

\* C2: whatever calls were made, accessOrder and the key->entry map hold the
\* same keys and no key appears twice in accessOrder.
C2_OrderMatchesMap ==
  /\ Range(lru.accessOrder) = DOMAIN lru.cache
  /\ \A k \in Keys : Occurrences(lru.accessOrder, k) <= 1

\* C3: a get never returns the data of an entry with now - timestamp > ttl:
\* such a get returns undefined and removes the entry, a get that returns data
\* returns that of an unexpired entry, and a has(k) made after a get(k) that
\* found the entry expired, with no set(k) in between, returns false.
C3_ExpiredNeverReturned ==
  [][LET k == op'.key
     IN /\ (op'.name = "get" /\ Get(k) /\ k \in DOMAIN lru.cache /\ Expired(lru, k, now))
             => /\ op'.ret = Undefined
                /\ k \notin DOMAIN lru'.cache
                /\ k \notin Range(lru'.accessOrder)
        /\ (op'.name = "get" /\ op'.ret # Undefined /\ Get(k))
             => /\ k \in DOMAIN lru.cache
                /\ ~Expired(lru, k, now)
                /\ op'.ret = lru.cache[k].data
        /\ (op'.name = "has" /\ k \in expiredGot /\ Has(k))
             => op'.ret = Bool(FALSE)]_vars

\* C3 witness: a get found key k expired, the clock is past the entry's ttl,
\* and a later has(k) answered false.
C3_Witness ==
  /\ op.name = "has"
  /\ op.key \in expiredGot
  /\ op.ret = Bool(FALSE)
  /\ now > lru.ttl

\* C4: a set of a new key on a cache holding maxSize entries evicts exactly
\* one entry, the one whose last set or successful get is the oldest; a has
\* that answers true changes neither the recency order nor any hit counter.
C4_EvictsExactlyTheLru ==
  [][LET k == op'.key
     IN /\ (op'.name = "set" /\ k \notin DOMAIN lru.cache
               /\ Cardinality(DOMAIN lru.cache) = lru.maxSize /\ Set(k, op'.value))
             => DOMAIN lru'.cache = ((DOMAIN lru.cache) \ {Head(lastUse)}) \cup {k}
        /\ (op'.name = "has" /\ op'.ret = Bool(TRUE) /\ Has(k)) => lru' = lru]_vars

\* C5: after set(k, v), k is last in accessOrder and appears there once, its
\* entry holds v, the clock value of the call and zero hits, and a get(k) that
\* is the next call and is made within the ttl of the set returns v.
C5_SetThenGet ==
  [][LET k == op'.key
     IN /\ (op'.name = "set" /\ Set(k, op'.value))
             => /\ k \in DOMAIN lru'.cache
                /\ lru'.cache[k] = [data |-> op'.value, timestamp |-> now, hits |-> 0]
                /\ lru'.accessOrder # <<>>
                /\ lru'.accessOrder[Len(lru'.accessOrder)] = k
                /\ Occurrences(lru'.accessOrder, k) = 1
        /\ (op'.name = "get" /\ op.name = "set" /\ op.key = k
               /\ now - op.at <= lru.ttl /\ Get(k))
             => op'.ret = op.value]_vars

\* C5 witness: a key that was set again at a later clock value while another
\* key was held, then read back within the ttl.
C5_Witness ==
  /\ op.name = "get"
  /\ op.ret \in Values
  /\ Len(lru.accessOrder) = 2
  /\ lru.cache[op.key].timestamp > 0
  /\ lru.cache[op.key].hits = 1
  /\ now > lru.cache[op.key].timestamp

\* C20: cleanup() removes from the map and from accessOrder exactly the keys
\* whose entry has now - timestamp > ttl, returns how many they are, and
\* leaves the other entries (data, timestamp, hits) and their relative order
\* in accessOrder as they were.
C20_CleanupRemovesExactlyExpired ==
  [][(op'.name = "cleanup" /\ Cleanup)
       => LET gone == {k \in DOMAIN lru.cache : now - lru.cache[k].timestamp > lru.ttl}
              kept == (DOMAIN lru.cache) \ gone
          IN /\ DOMAIN lru'.cache = kept
             /\ \A k \in kept : lru'.cache[k] = lru.cache[k]
             /\ lru'.accessOrder = Keep(lru.accessOrder, kept)
             /\ Range(lru'.accessOrder) \cap gone = {}
             /\ op'.cnt = Cardinality(gone)
             /\ lru'.maxSize = lru.maxSize /\ lru'.ttl = lru.ttl]_vars

\* C20 witness: a cleanup removed an expired entry and left an unexpired one.
C20_Witness ==
  /\ op.name = "cleanup"
  /\ op.cnt >= 1
  /\ DOMAIN lru.cache # {}
  /\ lru.accessOrder # <<>>

\* C30: expired entries keep their place until removed: a set of a new key on
\* a cache holding maxSize entries removes the key at the head of accessOrder
\* and no other, expired or not; and a key whose entry is expired leaves the
\* map only by a get or has of that key, a cleanup, a delete of that key, a
\* clear, or a set that finds it at the head of accessOrder.
C30_ExpiredEntriesOccupyCapacity ==
  [][LET k == op'.key
         expired == {e \in DOMAIN lru.cache : now - lru.cache[e].timestamp > lru.ttl}
     IN /\ (op'.name = "set" /\ k \notin DOMAIN lru.cache
               /\ Cardinality(DOMAIN lru.cache) = lru.maxSize
               /\ lru.accessOrder # <<>> /\ Set(k, op'.value))
             => DOMAIN lru'.cache = ((DOMAIN lru.cache) \ {Head(lru.accessOrder)}) \cup {k}
        /\ \A e \in expired \ DOMAIN lru'.cache :
             \/ op'.name \in {"get", "has", "delete"} /\ k = e
             \/ op'.name \in {"cleanup", "clear"}
             \/ op'.name = "set" /\ lru.accessOrder # <<>> /\ Head(lru.accessOrder) = e]_vars

----------------------------------------------------------------------------
(* Text: a string is a sequence of one-character strings. *)

UpperCase == <<"A", "B", "C", "D", "E", "F", "G", "H", "I", "J", "K", "L", "M", "N", "O", "P", "Q", "R", "S", "T", "U", "V", "W", "X", "Y", "Z">>

LowerCase == <<"a", "b", "c", "d", "e", "f", "g", "h", "i", "j", "k", "l", "m", "n", "o", "p", "q", "r", "s", "t", "u", "v", "w", "x", "y", "z">>

Digits == <<"0", "1", "2", "3", "4", "5", "6", "7", "8", "9">>

\* the characters of the class \w
WordChars == Range(UpperCase) \cup Range(LowerCase) \cup Range(Digits) \cup {"_"}

\* the characters of the class \s
SpaceChars == {" ", "\t", "\n", "\r", "\f"}

UpperChars == Range(UpperCase)

\* the character ` (a string of the model cannot hold it)
Backtick == "BACKTICK"

IsWordChar(c) == c \in WordChars

IsSpace(c) == c \in SpaceChars

\* String.prototype.toLowerCase
toLowerCase(s) ==
  [i \in 1..Len(s) |->
     IF s[i] \in UpperChars THEN LowerCase[IndexOf(UpperCase, s[i])] ELSE s[i]]

\* String.prototype.trim
trim(s) ==
  LET notSpace(i) == ~IsSpace(s[i])
      inner == SelectSeq([i \in 1..Len(s) |-> i], notSpace)
  IN IF inner = <<>> THEN <<>> ELSE SubSeq(s, inner[1], inner[Len(inner)])

\* replace(/[^\w\s-]/g, '')
StripPunctuation(s) ==
  LET kept(c) == IsWordChar(c) \/ IsSpace(c) \/ c = "-"
  IN SelectSeq(s, kept)

\* split(/\s+/): the maximal runs of characters that are not whitespace, in
\* order, with an empty piece in front when the string is empty or starts
\* with whitespace and an empty piece at the end when it ends with whitespace
SplitOnWhitespace(s) ==
  LET isStart(i) == ~IsSpace(s[i]) /\ (i = 1 \/ IsSpace(s[i - 1]))
      isEnd(j) == ~IsSpace(s[j]) /\ (j = Len(s) \/ IsSpace(s[j + 1]))
      starts == SelectSeq([i \in 1..Len(s) |-> i], isStart)
      ends == SelectSeq([i \in 1..Len(s) |-> i], isEnd)
      pieces == [n \in 1..Len(starts) |-> SubSeq(s, starts[n], ends[n])]
      front == IF s = <<>> \/ IsSpace(s[1]) THEN <<(<<>>)>> ELSE <<>>
      back == IF s # <<>> /\ IsSpace(s[Len(s)]) THEN <<(<<>>)>> ELSE <<>>
  IN front \o pieces \o back

W_scan == <<"s", "c", "a", "n">>

W_asset == <<"a", "s", "s", "e", "t">>

W_users == <<"u", "s", "e", "r", "s">>

\* ['and', 'the', 'for', 'with', 'api']
StopWords == {<<"a", "n", "d">>, <<"t", "h", "e">>, <<"f", "o", "r">>, <<"w", "i", "t", "h">>, <<"a", "p", "i">>}

----------------------------------------------------------------------------
(* The indexer: keyword extraction, index construction and search. *)

\* the length a keyword must exceed: word.length > 2
MinKeywordLength == 2

\* slice(0, 10)
MaxResults == 10

\* extractKeywordsFromText(text)
extractKeywordsFromText(text) ==
  LET isKeyword(word) == Len(word) > MinKeywordLength /\ word \notin StopWords
  IN SelectSeq(SplitOnWhitespace(StripPunctuation(toLowerCase(text))), isKeyword)

\* an IndexedDoc; a url <<section, n>> stands for
\* https://developer.tenable.com/<section>/<n>, n = 0 for the section's root.
\* title and description are carried through the index untouched and left out.
IndexedDoc(url, category, keywords) ==
  [url |-> url, category |-> category, keywords |-> keywords]

\* keywordMap.get(keyword)!.push(index), creating the list when it is missing
Push(map, key, index) ==
  MapSet(map, key, IF key \in DOMAIN map THEN Append(map[key], index) ELSE <<index>>)

\* entry.keywords.forEach(keyword => ...) from position j on
RECURSIVE PushKeywords(_, _, _, _)
PushKeywords(map, keywords, j, index) ==
  IF j > Len(keywords) THEN map
  ELSE PushKeywords(Push(map, keywords[j], index), keywords, j + 1, index)

\* entries.forEach((entry, index) => ...) of buildKeywordMap from position i on
RECURSIVE KeywordMapFrom(_, _, _)
KeywordMapFrom(map, entries, i) ==
  IF i > Len(entries) THEN map
  ELSE KeywordMapFrom(PushKeywords(map, entries[i].keywords, 1, i), entries, i + 1)

\* buildKeywordMap(entries); positions are 1-based here
buildKeywordMap(entries) == KeywordMapFrom(EmptyMap, entries, 1)

\* entries.forEach((entry, index) => ...) of buildCategoryMap from position i on
RECURSIVE CategoryMapFrom(_, _, _)
CategoryMapFrom(map, entries, i) ==
  IF i > Len(entries) THEN map
  ELSE CategoryMapFrom(Push(map, entries[i].category, i), entries, i + 1)

\* buildCategoryMap(entries)
buildCategoryMap(entries) == CategoryMapFrom(EmptyMap, entries, 1)

\* the removal of duplicates that keeps a url's first entry
uniqueEntries_firstWins(allEntries) ==
  LET keep(i) == \A j \in 1..(i - 1) : allEntries[j].url # allEntries[i].url
      firsts == SelectSeq([i \in 1..Len(allEntries) |-> i], keep)
  IN [n \in 1..Len(firsts) |-> allEntries[firsts[n]]]

\* Array.from(new Map(allEntries.map(entry => [entry.url, entry])).values()):
\* one entry per url, at the place of the url's first occurrence, holding the
\* url's last entry
uniqueEntries(allEntries) ==
  LET first == {i \in 1..Len(allEntries) :
                  \A j \in 1..(i - 1) : allEntries[j].url # allEntries[i].url}
      lastOf(i) == CHOOSE j \in 1..Len(allEntries) :
                     /\ allEntries[j].url = allEntries[i].url
                     /\ \A l \in (j + 1)..Len(allEntries) : allEntries[l].url # allEntries[i].url
      keep(i) == i \in first
      firsts == SelectSeq([i \in 1..Len(allEntries) |-> i], keep)
  IN [n \in 1..Len(firsts) |-> allEntries[lastOf(firsts[n])]]

\* the seed-page loop of buildIndex giving up at the first page that fails
RECURSIVE AllEntriesFrom_stopAtFailure(_, _)
AllEntriesFrom_stopAtFailure(fetched, p) ==
  IF p > Len(fetched) THEN <<>>
  ELSE IF fetched[p].threw \/ fetched[p].statusCode >= 400 THEN <<>>
  ELSE fetched[p].links \o AllEntriesFrom_stopAtFailure(fetched, p + 1)

\* the seed-page loop of buildIndex from page p on: fetched[p] is what
\* downloadHTML did for MAIN_PAGES[p] (it threw, or returned statusCode and a
\* page whose extractDocLinks result is links); a page that threw or has
\* statusCode >= 400 adds nothing
RECURSIVE AllEntriesFrom(_, _)
AllEntriesFrom(fetched, p) ==
  IF p > Len(fetched) THEN <<>>
  ELSE (IF fetched[p].threw \/ fetched[p].statusCode >= 400 THEN <<>> ELSE fetched[p].links)
       \o AllEntriesFrom(fetched, p + 1)

\* buildIndex()
buildIndex(fetched) ==
  LET entries == uniqueEntries(AllEntriesFrom(fetched, 1))
  IN [built |-> TRUE,
      entries |-> entries,
      keywordMap |-> buildKeywordMap(entries),
      categoryMap |-> buildCategoryMap(entries)]

\* _searchIndex = null
NullIndex == [built |-> FALSE]

\* indices.forEach(index => scores.set(index, (scores.get(index) || 0) + 1)) from
\* position j on; scores is the Map as the sequence of its [index, score] pairs
\* in insertion order
RECURSIVE AddPostings(_, _, _)
AddPostings(scores, indices, j) ==
  IF j > Len(indices) THEN scores
  ELSE LET at == {n \in 1..Len(scores) : scores[n][1] = indices[j]}
           next == IF at = {} THEN Append(scores, <<indices[j], 1>>)
                   ELSE [n \in 1..Len(scores) |->
                           IF n \in at THEN <<scores[n][1], scores[n][2] + 1>> ELSE scores[n]]
       IN AddPostings(next, indices, j + 1)

\* keywords.forEach(keyword => ...) of searchIndexInternal from position i on
RECURSIVE AccumulateScores(_, _, _, _)
AccumulateScores(scores, index, keywords, i) ==
  IF i > Len(keywords) THEN scores
  ELSE LET indices == IF keywords[i] \in DOMAIN index.keywordMap
                      THEN index.keywordMap[keywords[i]] ELSE <<>>
       IN AccumulateScores(AddPostings(scores, indices, 1), index, keywords, i + 1)

\* one pair put into a sequence sorted by descending score, after the pairs
\* that do not rank below it
RECURSIVE InsertByScore(_, _)
InsertByScore(sorted, pair) ==
  IF sorted = <<>> THEN <<pair>>
  ELSE IF Head(sorted)[2] >= pair[2]
  THEN <<Head(sorted)>> \o InsertByScore(Tail(sorted), pair)
  ELSE <<pair>> \o sorted

\* sort((a, b) => b[1] - a[1]): a stable sort by descending score
RECURSIVE SortByScore(_)
SortByScore(pairs) ==
  IF pairs = <<>> THEN <<>>
  ELSE InsertByScore(SortByScore(SubSeq(pairs, 1, Len(pairs) - 1)), pairs[Len(pairs)])

\* slice(0, n)
Slice(s, n) == SubSeq(s, 1, IF Len(s) < n THEN Len(s) ELSE n)

\* searchIndexInternal(query) with the slice taken before the sort
searchIndexInternal_sliceFirst(index, query) ==
  LET keywords == extractKeywordsFromText(query)
  IN IF ~index.built \/ keywords = <<>> THEN <<>>
     ELSE LET top == SortByScore(Slice(AccumulateScores(<<>>, index, keywords, 1), MaxResults))
          IN [n \in 1..Len(top) |-> index.entries[top[n][1]]]

\* searchIndexInternal(query) with no slice
searchIndexInternal_noSlice(index, query) ==
  LET keywords == extractKeywordsFromText(query)
  IN IF ~index.built \/ keywords = <<>> THEN <<>>
     ELSE LET top == SortByScore(AccumulateScores(<<>>, index, keywords, 1))
          IN [n \in 1..Len(top) |-> index.entries[top[n][1]]]

\* searchIndexInternal(query)
searchIndexInternal(index, query) ==
  LET keywords == extractKeywordsFromText(query)
  IN IF ~index.built \/ keywords = <<>> THEN <<>>
     ELSE LET top == Slice(SortByScore(AccumulateScores(<<>>, index, keywords, 1)), MaxResults)
          IN [n \in 1..Len(top) |-> index.entries[top[n][1]]]

\* search(query)
search(index, query) == IF ~index.built THEN <<>> ELSE searchIndexInternal(index, query)

----------------------------------------------------------------------------
(* The search tool. *)

\* trimmedQuery.length < 2
MinQueryLength == 2

\* trimmedQuery.length > 200
MaxQueryLength == 200

\* validateSearchQuery(query): the error it throws, "ok" when it returns
validateSearchQuery(query) ==
  LET trimmedQuery == trim(query)
  IN IF query = <<>> THEN "ValidationError"
     ELSE IF Len(trimmedQuery) = 0 THEN "ValidationError"
     ELSE IF Len(trimmedQuery) < MinQueryLength THEN "ValidationError"
     ELSE IF Len(trimmedQuery) > MaxQueryLength THEN "ValidationError"
     ELSE "ok"

\* getFallbackResults()
getFallbackResults ==
  <<[url |-> <<"reference", 0>>], [url |-> <<"recipes", 0>>], [url |-> <<"api-explorer", 0>>]>>

\* searchDocs(query) with the index searched before the query is validated
searchDocs_searchFirst(index, query) ==
  LET indexedResults == search(index, query)
      results == [n \in 1..Len(indexedResults) |-> [url |-> indexedResults[n].url]]
  IN IF validateSearchQuery(query) # "ok"
     THEN [outcome |-> "ValidationError", results |-> <<>>, accessed |-> {"index"}]
     ELSE [outcome |-> "ok",
           results |-> IF Len(results) = 0 THEN getFallbackResults ELSE results,
           accessed |-> {"index"}]

\* searchDocs(query) without the fallback results
searchDocs_noFallback(index, query) ==
  IF validateSearchQuery(query) # "ok"
  THEN [outcome |-> "ValidationError", results |-> <<>>, accessed |-> {}]
  ELSE LET indexedResults == search(index, query)
           results == [n \in 1..Len(indexedResults) |-> [url |-> indexedResults[n].url]]
       IN [outcome |-> "ok", results |-> results, accessed |-> {"index"}]

\* searchDocs(query): how it ends (outcome), what it returns (results: each
\* SearchResult by its url) and what it read on the way (accessed: the index
\* through search(), the network never)
searchDocs(index, query) ==
  IF validateSearchQuery(query) # "ok"
  THEN [outcome |-> "ValidationError", results |-> <<>>, accessed |-> {}]
  ELSE LET indexedResults == search(index, query)
           results == [n \in 1..Len(indexedResults) |-> [url |-> indexedResults[n].url]]
       IN [outcome |-> "ok",
           results |-> IF Len(results) = 0 THEN getFallbackResults ELSE results,
           accessed |-> {"index"}]

----------------------------------------------------------------------------
(* The index built once from the two seed pages, then searched. call is    *)
(* the last search or searchDocs call made on the index as it is now: its  *)
(* query, how it ended, what it returned and what it read.                 *)

\* the keyword lists of the links on the seed pages
KeywordLists == {<<W_scan>>, <<W_asset>>, <<W_scan, W_asset>>}

\* what extractDocLinks finds on the first seed page: up to MaxHead links
ReferenceLinks ==
  {[i \in 1..n |-> IndexedDoc(<<"reference", i>>, "API References", h[i])] :
     n \in 0..MaxHead, h \in [1..MaxHead -> KeywordLists]}

\* what extractDocLinks finds on the second seed page: a run of no, MaxPad - 1
\* or MaxPad links with the keyword scan, then possibly one more link, which
\* may repeat the url of the first page's first link
RecipeLinks ==
  {[i \in 1..m |-> IndexedDoc(<<"recipes", i>>, "Recipes", <<W_scan>>)] \o last :
     m \in {0, MaxPad - 1, MaxPad},
     last \in {<<>>} \cup {<<IndexedDoc(u, "Recipes", k)>> :
                            u \in {<<"reference", 1>>, <<"recipes", 0>>}, k \in KeywordLists}}

\* what downloadHTML does for a seed page: it throws, or returns a status code
\* and a page with these links
Fetches(links) ==
  {[threw |-> TRUE, statusCode |-> 0, links |-> <<>>],
   [threw |-> FALSE, statusCode |-> 404,
    links |-> <<IndexedDoc(<<"reference", 1>>, "API References", <<W_users>>)>>]}
  \cup {[threw |-> FALSE, statusCode |-> 200, links |-> l] : l \in links}

\* the queries search is called with
Queries == {<<>>,
            <<"a", "p", "i">>,
            <<"u", "s", "e", "r", "s">>,
            <<"s", "c", "a", "n">>,
            <<"a", "s", "s", "e", "t">>,
            <<"s", "c", "a", "n", " ", "a", "s", "s", "e", "t">>,
            <<"a", "s", "s", "e", "t", " ", "s", "c", "a", "n">>,
            <<"s", "c", "a", "n", " ", "s", "c", "a", "n", " ", "a", "s", "s", "e", "t">>,
            <<"S", "c", "a", "n", ",", " ", "A", "S", "S", "E", "T", "!">>}

\* the short queries searchDocs is called with
ShortQueries == {<<" ", "a", " ">>,
                 <<"a", "b">>,
                 <<"t", "h", "e", " ", "a", "p", "i">>,
                 <<" ", " ", "s", "c", "a", "n", "\t", "a", "s", "s", "e", "t", " ">>}

\* the queries at the length limit of searchDocs: 200 and 201 characters,
\* bare and inside whitespace
LongQueries ==
  LET x(n) == [i \in 1..n |-> "x"]
  IN {x(MaxQueryLength), x(MaxQueryLength + 1),
      <<" ">> \o x(MaxQueryLength) \o <<" ">>, <<" ">> \o x(MaxQueryLength + 1)}

\* the cache variables of a behaviour that uses no cache
CacheIdle ==
  /\ lru = LRUCache([maxSize |-> 0, ttl |-> 0])
  /\ now = 0
  /\ op = NoOp
  /\ lastUse = <<>>
  /\ expiredGot = {}

SearchInit ==
  /\ searchIndex = NullIndex
  /\ initPc = [i \in InitCalls |-> "idle"]
  /\ call = NoCall
  /\ initLog = NoLog
  /\ CacheIdle
  /\ ReadIdle
  /\ calc = NoCalc

\* initializeIndex() of call i up to its await of buildIndex(), or to its
\* return when the index is there
InitializeIndexStart(i) ==
  /\ initPc[i] \in {"idle", "done"}
  /\ IF searchIndex.built
     THEN /\ initPc' = [initPc EXCEPT ![i] = "done"]
          /\ initLog' = initLog
     ELSE /\ initPc' = [initPc EXCEPT ![i] = "building"]
          /\ initLog' = [initLog EXCEPT !.builds = @ + 1]
  /\ UNCHANGED <<searchIndex, call, cacheVars, readVars, handlerVars, logVars, calcVars>>

\* initializeIndex() of call i from the return of buildIndex() on; buildIndex
\* catches what its downloads throw, so the catch branch is never taken
InitializeIndexFinish(i, fetched) ==
  /\ initPc[i] = "building"
  /\ searchIndex' = buildIndex(fetched)
  /\ initPc' = [initPc EXCEPT ![i] = "done"]
  /\ initLog' = [initLog EXCEPT !.sets = @ + 1, !.allEntries = AllEntriesFrom(fetched, 1),
                                !.fetched = fetched]
  /\ call' = NoCall
  /\ UNCHANGED <<cacheVars, readVars, handlerVars, logVars, calcVars>>

\* search(query)
Search(q) ==
  /\ call' = [fn |-> "search", query |-> q, outcome |-> "ok",
              results |-> search(searchIndex, q), accessed |-> {"index"}]
  /\ UNCHANGED <<searchIndex, initPc, initLog, cacheVars, readVars, handlerVars, logVars, calcVars>>

\* searchDocs(query)
SearchDocs(q) ==
  /\ LET r == searchDocs(searchIndex, q)
     IN call' = [fn |-> "searchDocs", query |-> q, outcome |-> r.outcome,
                 results |-> r.results, accessed |-> r.accessed]
  /\ UNCHANGED <<searchIndex, initPc, initLog, cacheVars, readVars, handlerVars, logVars, calcVars>>

\* one initializeIndex call at a time (a caller that initializes the index
\* once, as the function is meant to be used)
SearchNext ==
  \/ InitializeIndexStart(1)
  \/ \E f1 \in Fetches(ReferenceLinks), f2 \in Fetches(RecipeLinks) :
       InitializeIndexFinish(1, <<f1, f2>>)
  \/ \E q \in Queries : Search(q)
  \/ \E q \in ShortQueries \cup LongQueries : SearchDocs(q)

SearchSpec == SearchInit /\ [][SearchNext]_vars

----------------------------------------------------------------------------
(* initializeIndex calls in progress at once, on seed pages with few links *)
(* that may repeat a url on one page and across the two pages.             *)

\* what downloadHTML does for the first seed page
InitReferenceFetches ==
  Fetches({<<>>, <<IndexedDoc(<<"reference", 1>>, "API References", <<W_scan>>)>>})

\* the links extractDocLinks may find on the second seed page
InitRecipeDocs ==
  {IndexedDoc(u, "Recipes", k) :
     u \in {<<"reference", 1>>, <<"recipes", 1>>}, k \in {<<W_scan>>, <<W_asset>>}}

\* what downloadHTML does for the second seed page: up to MaxLinks links
InitRecipeFetches ==
  Fetches(UNION {[1..n -> InitRecipeDocs] : n \in 0..MaxLinks})

InitNext ==
  \/ \E i \in InitCalls : InitializeIndexStart(i)
  \/ \E i \in InitCalls, f1 \in InitReferenceFetches, f2 \in InitRecipeFetches :
       InitializeIndexFinish(i, <<f1, f2>>)

InitSpec == SearchInit /\ [][InitNext]_vars

----------------------------------------------------------------------------
(* Claims about the build of the index. *)

\* C13: in the index buildIndex returns, every position in a posting list of
\* keywordMap or categoryMap is a position of entries, no two entries have
\* the same url, the urls are those discovered, and the entry kept for a url
\* is the last one discovered with that url.
C13_IndexWellFormed ==
  searchIndex.built =>
    LET entries == searchIndex.entries
        allEntries == initLog.allEntries
    IN /\ \A k \in DOMAIN searchIndex.keywordMap :
            Range(searchIndex.keywordMap[k]) \subseteq 1..Len(entries)
       /\ \A c \in DOMAIN searchIndex.categoryMap :
            Range(searchIndex.categoryMap[c]) \subseteq 1..Len(entries)
       /\ \A i, j \in 1..Len(entries) : entries[i].url = entries[j].url => i = j
       /\ {entries[i].url : i \in 1..Len(entries)}
            = {allEntries[j].url : j \in 1..Len(allEntries)}
       /\ \A i \in 1..Len(entries) :
            \E j \in 1..Len(allEntries) :
              /\ allEntries[j] = entries[i]
              /\ \A l \in (j + 1)..Len(allEntries) : allEntries[l].url # entries[i].url

\* C13 witness: an index of two entries built from pages on which one url
\* was discovered more than once, with keywords that differ.
C13_Witness ==
  /\ searchIndex.built
  /\ Len(searchIndex.entries) = 2
  /\ \E u \in {<<"reference", 1>>} :
       LET at == {j \in 1..Len(initLog.allEntries) : initLog.allEntries[j].url = u}
       IN /\ Cardinality(at) >= 2
          /\ \E j, l \in at : initLog.allEntries[j] # initLog.allEntries[l]

\* C14: whatever initializeIndex calls are made, buildIndex is started at most
\* once and _searchIndex is assigned at most once.
C14_BuiltOnce == initLog.builds <= 1 /\ initLog.sets <= 1

\* C21: a seed page whose download threw or returned a status >= 400 adds no
\* entry to the index, the other seed pages add theirs all the same, and
\* every initializeIndex call that has returned has left an index in place.
C21_BuildIsBestEffort ==
  LET fetched == initLog.fetched
      failed == {p \in 1..Len(fetched) : fetched[p].threw \/ fetched[p].statusCode >= 400}
      linked(p) == {fetched[p].links[j].url : j \in 1..Len(fetched[p].links)}
  IN /\ \A i \in InitCalls : initPc[i] = "done" => searchIndex.built
     /\ initLog.sets > 0 => searchIndex.built /\ Len(fetched) = 2
     /\ searchIndex.built =>
          /\ {searchIndex.entries[n].url : n \in 1..Len(searchIndex.entries)}
               = UNION {linked(p) : p \in (1..Len(fetched)) \ failed}
          /\ \A n \in 1..Len(searchIndex.entries) :
               \E p \in (1..Len(fetched)) \ failed :
                 \E j \in 1..Len(fetched[p].links) : fetched[p].links[j] = searchIndex.entries[n]

\* C21 witness: the index was built although the first seed page failed, and
\* holds the links of the second
C21_Witness ==
  /\ searchIndex.built
  /\ \E i \in InitCalls : initPc[i] = "done"
  /\ initLog.fetched[1].threw \/ initLog.fetched[1].statusCode >= 400
  /\ ~initLog.fetched[2].threw /\ initLog.fetched[2].statusCode = 200
  /\ Len(searchIndex.entries) > 0

----------------------------------------------------------------------------
(* Claims about the search tool and the index search. *)

\* C6: a searchDocs call whose query, trimmed, is shorter than 2 or longer
\* than 200 characters ends in a ValidationError and has read neither the
\* index nor the network.
C6_BadQueryRejectedUnread ==
  call.fn = "searchDocs"
  => LET trimmedLength == Len(trim(call.query))
     IN (trimmedLength < 2 \/ trimmedLength > 200)
        => (call.outcome = "ValidationError" /\ call.accessed = {})

\* C6 witness: on a built index, a query of 201 characters inside whitespace
\* was rejected.
C6_Witness ==
  /\ call.fn = "searchDocs"
  /\ searchIndex.built
  /\ Len(searchIndex.entries) > 0
  /\ Len(trim(call.query)) = 201
  /\ Len(call.query) > 201
  /\ call.outcome = "ValidationError"

\* the tokens of a query
Tokens(query) == extractKeywordsFromText(query)

\* an entry's keywords hold at least one of the tokens
Matches(entry, tokens) == \E n \in 1..Len(tokens) : tokens[n] \in Range(entry.keywords)

\* C9: search returns at most 10 entries, each an entry of the index whose
\* keywords hold at least one token of the query, and returns nothing when the
\* index is not built or the query has no tokens.
C9_AtMostTenMatchingEntries ==
  call.fn = "search"
  => LET tokens == Tokens(call.query)
     IN /\ Len(call.results) <= 10
        /\ \A n \in 1..Len(call.results) :
             /\ searchIndex.built
             /\ call.results[n] \in Range(searchIndex.entries)
             /\ Matches(call.results[n], tokens)
        /\ (~searchIndex.built \/ tokens = <<>>) => call.results = <<>>

\* C9 witness: a search returned 10 entries from an index with more than 10
\* matching entries and an entry that does not match.
C9_Witness ==
  /\ call.fn = "search"
  /\ Len(call.results) = 10
  /\ LET tokens == Tokens(call.query)
     IN /\ Cardinality({e \in Range(searchIndex.entries) : Matches(e, tokens)}) > 10
        /\ \E e \in Range(searchIndex.entries) : ~Matches(e, tokens)

\* how many of the tokens an entry's keywords hold
TokensHeld(entry, tokens) ==
  Cardinality({n \in 1..Len(tokens) : tokens[n] \in Range(entry.keywords)})

\* the place of an entry in a list of entries, 0 when it is not there
PlaceIn(list, entry) == IndexOf(list, entry)

\* C10: the entries search returns are in non-increasing order of the number
\* of query tokens they hold, and an index entry that holds strictly more of
\* the query's tokens than a returned entry is returned too, above it: the
\* cut to 10 leaves out no entry that outranks a returned one.
C10_RankedByScore ==
  (call.fn = "search" /\ searchIndex.built)
  => LET tokens == Tokens(call.query)
         held == [e \in Range(searchIndex.entries) |-> TokensHeld(e, tokens)]
     IN /\ \A i, j \in 1..Len(call.results) :
             i < j => held[call.results[i]] >= held[call.results[j]]
        /\ \A a \in Range(searchIndex.entries), b \in Range(call.results) :
             held[a] > held[b]
             => /\ a \in Range(call.results)
                /\ PlaceIn(call.results, a) < PlaceIn(call.results, b)

\* C10 witness: for the query "scan asset", an entry with the keywords scan
\* and asset is returned above an entry with the keyword scan alone that
\* precedes it in the index, and the cut to 10 left entries out.
C10_Witness ==
  /\ call.fn = "search"
  /\ searchIndex.built
  /\ call.query = <<"s", "c", "a", "n", " ", "a", "s", "s", "e", "t">>
  /\ Len(searchIndex.entries) > Len(call.results)
  /\ \E a, b \in Range(call.results) :
       /\ a.keywords = <<W_scan, W_asset>>
       /\ b.keywords = <<W_scan>>
       /\ PlaceIn(searchIndex.entries, b) < PlaceIn(searchIndex.entries, a)
       /\ PlaceIn(call.results, a) < PlaceIn(call.results, b)

\* how many distinct tokens an entry's keywords hold
DistinctTokensHeld(entry, tokens) ==
  Cardinality({t \in Range(tokens) : t \in Range(entry.keywords)})

\* C18: for every query and every entry of the index, the score search
\* accumulates for the entry is the number of distinct query tokens among the
\* entry's keywords (an entry without a score standing for none).
C18_ScoreCountsDistinctTokens ==
  (call.fn = "search" /\ searchIndex.built)
  => LET tokens == Tokens(call.query)
         scores == AccumulateScores(<<>>, searchIndex, tokens, 1)
         scored == {scores[n][1] : n \in 1..Len(scores)}
     IN /\ \A n \in 1..Len(scores) :
             scores[n][2] = DistinctTokensHeld(searchIndex.entries[scores[n][1]], tokens)
        /\ \A i \in (1..Len(searchIndex.entries)) \ scored :
             DistinctTokensHeld(searchIndex.entries[i], tokens) = 0

\* C19: of two returned entries with the same score, the one that comes first
\* in the index's entries comes first in the results.
C19_TiesInEntryOrder ==
  (call.fn = "search" /\ searchIndex.built)
  => LET tokens == Tokens(call.query)
         held == [e \in Range(searchIndex.entries) |-> TokensHeld(e, tokens)]
     IN \A i, j \in 1..Len(call.results) :
          (i < j /\ held[call.results[i]] = held[call.results[j]])
          => PlaceIn(searchIndex.entries, call.results[i])
               < PlaceIn(searchIndex.entries, call.results[j])

----------------------------------------------------------------------------
(* The page-read tool. A URL string is a sequence of pieces: whitespace     *)
(* characters and opaque runs of other characters, so that trim() has work *)
(* to do; host names are sequences of characters.                          *)

H_developer_tenable_com == <<"d", "e", "v", "e", "l", "o", "p", "e", "r", ".", "t", "e", "n", "a", "b", "l", "e", ".", "c", "o", "m">>

H_tenable_com == <<"t", "e", "n", "a", "b", "l", "e", ".", "c", "o", "m">>

H_docs_tenable_com == <<"d", "o", "c", "s", ".", "t", "e", "n", "a", "b", "l", "e", ".", "c", "o", "m">>

H_eviltenable_com == <<"e", "v", "i", "l", "t", "e", "n", "a", "b", "l", "e", ".", "c", "o", "m">>

H_tenable_com_evil_io == <<"t", "e", "n", "a", "b", "l", "e", ".", "c", "o", "m", ".", "e", "v", "i", "l", ".", "i", "o">>

H_example_com == <<"e", "x", "a", "m", "p", "l", "e", ".", "c", "o", "m">>

\* const ALLOWED_DOMAINS = ['developer.tenable.com', 'tenable.com']
ALLOWED_DOMAINS == <<H_developer_tenable_com, H_tenable_com>>

\* const fallbackUrl = 'https://developer.tenable.com/reference'
fallbackUrl == <<"https://developer.tenable.com/reference">>

\* a string that new URL() rejects
NotAUrl == [ok |-> FALSE, protocol |-> "", hostname |-> <<>>, pathParts |-> <<>>]

\* new URL(s): the protocol and host name of the parsed URL, and the non-empty
\* segments of its path; ok is FALSE where the constructor throws
URL(s) ==
  IF Len(s) # 1 THEN NotAUrl
  ELSE CASE s[1] = "https://developer.tenable.com/reference/scans" ->
              [ok |-> TRUE, protocol |-> "https:", hostname |-> H_developer_tenable_com,
               pathParts |-> <<"reference", "scans">>]
         [] s[1] = "https://docs.tenable.com/guide" ->
              [ok |-> TRUE, protocol |-> "https:", hostname |-> H_docs_tenable_com,
               pathParts |-> <<"guide">>]
         [] s[1] = "https://eviltenable.com/reference/scans" ->
              [ok |-> TRUE, protocol |-> "https:", hostname |-> H_eviltenable_com,
               pathParts |-> <<"reference", "scans">>]
         [] s[1] = "https://tenable.com.evil.io/reference" ->
              [ok |-> TRUE, protocol |-> "https:", hostname |-> H_tenable_com_evil_io,
               pathParts |-> <<"reference">>]
         [] s[1] = "https://example.com/?next=developer.tenable.com" ->
              [ok |-> TRUE, protocol |-> "https:", hostname |-> H_example_com,
               pathParts |-> <<>>]
         [] s[1] = "ftp://tenable.com/reference" ->
              [ok |-> TRUE, protocol |-> "ftp:", hostname |-> H_tenable_com,
               pathParts |-> <<"reference">>]
         [] OTHER -> NotAUrl

\* String.prototype.endsWith
EndsWith(s, suffix) ==
  Len(s) >= Len(suffix) /\ SubSeq(s, Len(s) - Len(suffix) + 1, Len(s)) = suffix

\* validateUrl(url) with the domain test endsWith(allowedDomain), without the
\* dot in front of it
validateUrl_noDot(url) ==
  IF url = <<>> THEN "ValidationError"
  ELSE LET trimmedUrl == trim(url)
           parsedUrl == URL(trimmedUrl)
           domain == toLowerCase(parsedUrl.hostname)
       IN IF Len(trimmedUrl) = 0 THEN "ValidationError"
          ELSE IF ~parsedUrl.ok THEN "ValidationError"
          ELSE IF parsedUrl.protocol \notin {"https:", "http:"} THEN "ValidationError"
          ELSE IF ~\E i \in 1..Len(ALLOWED_DOMAINS) :
                     \/ domain = ALLOWED_DOMAINS[i]
                     \/ EndsWith(domain, ALLOWED_DOMAINS[i])
          THEN "ValidationError"
          ELSE "ok"

\* validateUrl(url): "ok" when it returns, else the class of the error thrown
validateUrl(url) ==
  IF url = <<>> THEN "ValidationError"
  ELSE LET trimmedUrl == trim(url)
           parsedUrl == URL(trimmedUrl)
           domain == toLowerCase(parsedUrl.hostname)
       IN IF Len(trimmedUrl) = 0 THEN "ValidationError"
          ELSE IF ~parsedUrl.ok THEN "ValidationError"
          ELSE IF parsedUrl.protocol \notin {"https:", "http:"} THEN "ValidationError"
          ELSE IF ~\E i \in 1..Len(ALLOWED_DOMAINS) :
                     \/ domain = ALLOWED_DOMAINS[i]
                     \/ EndsWith(domain, <<".">> \o ALLOWED_DOMAINS[i])
          THEN "ValidationError"
          ELSE "ok"

\* createCacheKey(url, params), params being the names and values in the
\* order of the sorted names: the url alone when there are none
createCacheKey(url, params) ==
  IF params = <<>> THEN url ELSE url \o <<":">> \o params

\* the pages a server answers with: what extractTitle finds (none is ''), the
\* body, and how cleaning and conversion end on it
Pages ==
  {[title |-> "Scans", body |-> "h1", pipeline |-> "ok"],
   [title |-> "", body |-> "h2", pipeline |-> "ConversionError"],
   [title |-> "", body |-> "h3", pipeline |-> "Error"]}

NoPage == [title |-> "", body |-> "", pipeline |-> "ok"]

\* no download made
NoDownload == [threw |-> FALSE, statusCode |-> 0, page |-> NoPage, url |-> <<>>]

\* what downloadHTML(url) does: it throws a NetworkError, or returns the status
\* code (any below 500), the page and the url of the response
downloadHTML(url) ==
  {[threw |-> TRUE, statusCode |-> 0, page |-> NoPage, url |-> url]}
  \cup {[threw |-> FALSE, statusCode |-> 200, page |-> p, url |-> url] : p \in Pages}
  \cup {[threw |-> FALSE, statusCode |-> c, page |-> NoPage, url |-> url] : c \in {403, 404}}

\* a piece of a document's content
Part(kind, text) == [kind |-> kind, text |-> text]

\* the document made of a downloaded page: extractTitle(html) || defaultTitle,
\* and the Markdown of the cleaned page
Document(fetched, defaultTitle) ==
  [url |-> fetched.url,
   title |-> IF fetched.page.title # "" THEN fetched.page.title ELSE defaultTitle,
   content |-> <<Part("markdown", <<fetched.page.body>>)>>]

\* the 'Page Not Found' document of handle404Fallback
NotFoundDocument(url) ==
  [url |-> url, title |-> "Page Not Found", content |-> <<Part("notFound", url)>>]

\* handle404Fallback: whether it downloads the base reference page
FallbackDownloads(url) ==
  LET pathParts == URL(url).pathParts
  IN URL(url).ok /\ pathParts # <<>> /\ pathParts[1] = "reference"

\* handle404Fallback(url) without its inner try/catch: a failure of the
\* download or of the conversion reaches the outer catch, which returns null
handle404Fallback_noInnerCatch(url, fetched) ==
  IF ~URL(url).ok THEN NullDoc
  ELSE IF FallbackDownloads(url) /\ (fetched.threw \/ fetched.page.pipeline # "ok")
  THEN NullDoc
  ELSE IF FallbackDownloads(url) /\ fetched.statusCode = 200
  THEN LET doc == Document(fetched, "Tenable API Reference")
       IN [url |-> fallbackUrl, title |-> doc.title,
           content |-> <<Part("note", url)>> \o doc.content]
  ELSE NotFoundDocument(url)

\* handle404Fallback(url), fetched being what its download of the base
\* reference page did (not looked at when it makes none)
handle404Fallback(url, fetched) ==
  IF ~URL(url).ok THEN NullDoc
  ELSE IF /\ FallbackDownloads(url)
          /\ ~fetched.threw
          /\ fetched.statusCode = 200
          /\ fetched.page.pipeline = "ok"
  THEN LET doc == Document(fetched, "Tenable API Reference")
       IN [url |-> fallbackUrl, title |-> doc.title,
           content |-> <<Part("note", url)>> \o doc.content]
  ELSE NotFoundDocument(url)

\* whether pageCache.get(cacheKey) returns a document
CacheHit(C, cacheKey, t) == cacheKey \in DOMAIN C.cache /\ ~Expired(C, cacheKey, t)

\* the end of the readPage call in slot c: it returns result, or throws an
\* error of the class outcome
Done(c, r, outcome, result) ==
  /\ reads' = [reads EXCEPT ![c] = NoRead]
  /\ lastRead' = [r EXCEPT !.pc = "done", !.outcome = outcome, !.result = result]

\* the end of readPage returning the fallback without storing it
ReturnFallback_noSet(c, r, fallback) ==
  IF fallback # NullDoc
  THEN /\ pageCache' = pageCache
       /\ Done(c, [r EXCEPT !.cacheWrites = @ + 1], "ok", fallback)
  ELSE /\ pageCache' = pageCache
       /\ Done(c, r, "NetworkError", NullDoc)

\* what the end of readPage does with the value of handle404Fallback
ReturnFallback(c, r, fallback) ==
  IF fallback # NullDoc
  THEN /\ pageCache' = set(pageCache, createCacheKey(r.url, <<>>), fallback, now).st
       /\ Done(c, [r EXCEPT !.cacheWrites = @ + 1], "ok", fallback)
  ELSE /\ pageCache' = pageCache
       /\ Done(c, r, "NetworkError", NullDoc)

----------------------------------------------------------------------------
(* readPage calls in progress at once on the one page cache. A call runs   *)
(* from one await to the next in one step. reads[c] is the call in slot c: *)
(* where it stands, its input, the trimmed url, the status of its download *)
(* of the page (0 when there is none), what the download of the base       *)
(* reference page did, and how many downloads, cache reads and cache       *)
(* writes it has made. lastRead is the call that ended last, with how it   *)
(* ended and what it returned. lastFallback is the fallback document that  *)
(* was stored last: the url asked for, the document, the clock value of    *)
(* its set, and whether a page was stored under that url since.            *)
(* lastExpiry tells which calls in progress have removed an expired entry  *)
(* with their cache read (by), and whether such a call has ended in an     *)
(* error (failed).                                                         *)

\* the urls readPage is called with
ReadInputs ==
  {<<"https://developer.tenable.com/reference/scans">>,
   <<" ", "https://developer.tenable.com/reference/scans", "\n">>,
   <<"https://docs.tenable.com/guide">>,
   <<"https://eviltenable.com/reference/scans">>,
   <<"https://tenable.com.evil.io/reference">>,
   <<"https://example.com/?next=developer.tenable.com">>,
   <<"ftp://tenable.com/reference">>,
   <<"not", " ", "a", " ", "url">>,
   <<" ">>,
   <<>>}

ReadInit ==
  /\ pageCache = NewPageCache
  /\ reads = [c \in Calls |-> NoRead]
  /\ lastRead = NoRead
  /\ lastFallback = NoFallback
  /\ lastExpiry = NoExpiry
  /\ reply = NoReply
  /\ CacheIdle
  /\ SearchIdle
  /\ calc = NoCalc

\* lastFallback after a step of the call in slot c: a call that ends having
\* stored its result after a 404 becomes the last fallback, and one that ends
\* having stored the page under the url of the last fallback has replaced it
LogFallback(c) ==
  lastFallback' =
    IF reads'[c].pc = "idle" /\ lastRead'.cacheWrites = 1
    THEN IF lastRead'.status = 404
         THEN [url |-> lastRead'.url, doc |-> lastRead'.result, at |-> now,
               replaced |-> FALSE]
         ELSE IF lastRead'.url = lastFallback.url
         THEN [lastFallback EXCEPT !.replaced = TRUE]
         ELSE lastFallback
    ELSE lastFallback

\* readPage(input) up to its await of downloadHTML(url)
ReadPageStart(c, input) ==
  /\ reads[c].pc = "idle"
  /\ LET r == [NoRead EXCEPT !.input = input]
         url == trim(input)
         cacheKey == createCacheKey(url, <<>>)
     IN IF validateUrl(input) # "ok"
        THEN /\ pageCache' = pageCache
             /\ Done(c, r, "ValidationError", NullDoc)
        ELSE /\ CacheHit(pageCache, cacheKey, now) => pageCache.cache[cacheKey].hits < MaxHits
             /\ pageCache' = get(pageCache, cacheKey, now).st
             /\ IF CacheHit(pageCache, cacheKey, now)
                THEN Done(c, [r EXCEPT !.url = url, !.cacheReads = 1], "ok",
                          pageCache.cache[cacheKey].data)
                ELSE /\ reads' = [reads EXCEPT ![c] = [r EXCEPT !.pc = "download",
                                                                !.url = url,
                                                                !.cacheReads = 1]]
                     /\ lastRead' = lastRead
  /\ UNCHANGED <<cacheVars, searchVars, calcVars>>

\* readPage from the return of downloadHTML(url) to its end or to the await
\* of the download in handle404Fallback
DownloadReturn(c, fetched) ==
  /\ reads[c].pc = "download"
  /\ LET r == [reads[c] EXCEPT !.fetches = @ + 1, !.status = fetched.statusCode]
         result == Document(fetched, "Untitled Document")
     IN IF fetched.threw
        THEN /\ pageCache' = pageCache
             /\ Done(c, r, "NetworkError", NullDoc)
        ELSE IF fetched.statusCode = 404
        THEN IF FallbackDownloads(r.url)
             THEN /\ pageCache' = pageCache
                  /\ reads' = [reads EXCEPT ![c] = [r EXCEPT !.pc = "fallback"]]
                  /\ lastRead' = lastRead
             ELSE ReturnFallback(c, r, handle404Fallback(r.url, NoDownload))
        ELSE IF fetched.statusCode >= 400
        THEN /\ pageCache' = pageCache
             /\ Done(c, r, "NetworkError", NullDoc)
        ELSE IF fetched.page.pipeline # "ok"
        THEN /\ pageCache' = pageCache
             /\ Done(c, r, IF fetched.page.pipeline = "ConversionError"
                            THEN "ConversionError" ELSE "ScrapingError", NullDoc)
        ELSE /\ pageCache' = set(pageCache, createCacheKey(r.url, <<>>), result, now).st
             /\ Done(c, [r EXCEPT !.cacheWrites = @ + 1], "ok", result)
  /\ UNCHANGED <<cacheVars, searchVars, calcVars>>

\* handle404Fallback from the return of downloadHTML(fallbackUrl) on, then
\* readPage to its end
FallbackReturn(c, fetched) ==
  /\ reads[c].pc = "fallback"
  /\ LET r == [reads[c] EXCEPT
                 !.fetches = @ + 1,
                 !.fallback = IF fetched.threw THEN "threw"
                              ELSE IF fetched.statusCode = 200 THEN "200" ELSE "other"]
     IN ReturnFallback(c, r, handle404Fallback(r.url, fetched))
  /\ UNCHANGED <<cacheVars, searchVars, calcVars>>

\* Date.now() advances past the ttl of the page cache
DayPasses ==
  /\ now < MaxDays * (PageCacheTtl + 1)
  /\ now' = now + PageCacheTtl + 1
  /\ UNCHANGED <<lru, op, lastUse, expiredGot, searchVars, readVars, handlerVars, logVars, calcVars>>

ReadNext ==
  \/ DayPasses
  \/ \E c \in Calls, input \in ReadInputs :
       ReadPageStart(c, input) /\ UNCHANGED <<handlerVars, logVars>>
  \/ \E c \in Calls : \E fetched \in downloadHTML(reads[c].url) :
       DownloadReturn(c, fetched) /\ UNCHANGED <<handlerVars, logVars>>
  \/ \E c \in Calls : \E fetched \in downloadHTML(fallbackUrl) :
       FallbackReturn(c, fetched) /\ UNCHANGED <<handlerVars, logVars>>

ReadSpec == ReadInit /\ [][ReadNext]_vars

----------------------------------------------------------------------------
(* Claims about the page-read tool. *)

\* the host of the url is neither an allow-listed domain nor a subdomain of
\* one (a label sequence, a dot, then the domain)
HostOutside(input) ==
  LET parsedUrl == URL(trim(input))
      host == parsedUrl.hostname
  IN /\ parsedUrl.ok
     /\ \A d \in {H_developer_tenable_com, H_tenable_com} :
          /\ host # d
          /\ ~\E n \in 1..Len(host) : host[n] = "." /\ SubSeq(host, n + 1, Len(host)) = d

\* whether a document's content holds a notice that names the url
HasNotice(doc, url) ==
  \E i \in 1..Len(doc.content) :
    doc.content[i].kind \in {"note", "notFound"} /\ doc.content[i].text = url

\* C7: a readPage call on a url whose host is neither an allow-listed domain
\* nor a subdomain of one ends in a ValidationError having made no download,
\* no read of the page cache and no write to it, and no such call is ever
\* past its validation.
C7_OutsideHostRejectedUnfetched ==
  /\ \A c \in Calls : reads[c].pc # "idle" => ~HostOutside(reads[c].input)
  /\ (lastRead.pc = "done" /\ HostOutside(lastRead.input))
       => /\ lastRead.outcome = "ValidationError"
          /\ lastRead.fetches = 0
          /\ lastRead.cacheReads = 0
          /\ lastRead.cacheWrites = 0

\* C7 witness: with documents in the page cache, a call on
\* https://eviltenable.com/reference/scans has ended in a ValidationError.
C7_Witness ==
  /\ lastRead.pc = "done"
  /\ lastRead.input = <<"https://eviltenable.com/reference/scans">>
  /\ HostOutside(lastRead.input)
  /\ lastRead.outcome = "ValidationError"
  /\ DOMAIN pageCache.cache # {}

\* C8: a readPage call whose download of the page returned status 404 ends
\* without an error, whatever the download of the base reference page did,
\* and returns a document whose content holds a notice naming the requested
\* url (the input without its surrounding whitespace).
C8_NotFoundYieldsFallback ==
  (lastRead.pc = "done" /\ lastRead.status = 404)
    => /\ lastRead.outcome = "ok"
       /\ lastRead.result # NullDoc
       /\ HasNotice(lastRead.result, trim(lastRead.input))

\* C8 witness: the page returned 404, the download of the base reference
\* page threw, and the call returned a document with the notice.
C8_Witness ==
  /\ lastRead.pc = "done"
  /\ lastRead.status = 404
  /\ lastRead.fallback = "threw"
  /\ lastRead.outcome = "ok"
  /\ HasNotice(lastRead.result, trim(lastRead.input))

\* C16: page reads are not cached: every readPage call on an allow-listed
\* url that has ended has downloaded the page, and no document is kept from
\* one call to the next.
C16_EveryReadDownloads ==
  /\ (lastRead.pc = "done" /\ validateUrl(lastRead.input) = "ok") => lastRead.fetches >= 1
  /\ DOMAIN pageCache.cache = {}

----------------------------------------------------------------------------
(* readPage calls in progress at once on one url, with lastFallback kept.  *)

\* the url the calls ask for, bare and inside whitespace
SameUrlInputs ==
  {<<"https://developer.tenable.com/reference/scans">>,
   <<" ", "https://developer.tenable.com/reference/scans", "\n">>}

SameUrlNext ==
  \/ DayPasses
  \/ \E c \in Calls, input \in SameUrlInputs :
       ReadPageStart(c, input) /\ LogFallback(c) /\ UNCHANGED <<handlerVars, lastExpiry>>
  \/ \E c \in Calls : \E fetched \in downloadHTML(reads[c].url) :
       DownloadReturn(c, fetched) /\ LogFallback(c) /\ UNCHANGED <<handlerVars, lastExpiry>>
  \/ \E c \in Calls : \E fetched \in downloadHTML(fallbackUrl) :
       FallbackReturn(c, fetched) /\ LogFallback(c) /\ UNCHANGED <<handlerVars, lastExpiry>>

SameUrlSpec == ReadInit /\ [][SameUrlNext]_vars

\* C29 as stated: once a readPage call has returned and stored a fallback
\* document for a url whose download returned 404, every later readPage call
\* on that url within the ttl returns that document at once, having made no
\* download.
C29_FallbackAlwaysServed ==
  [][\A c \in Calls, input \in SameUrlInputs :
       (/\ lastFallback.doc # NullDoc
        /\ reads[c].pc = "idle"
        /\ trim(input) = lastFallback.url
        /\ now - lastFallback.at <= PageCacheTtl
        /\ ReadPageStart(c, input))
         => /\ reads'[c].pc = "idle"
            /\ lastRead'.outcome = "ok"
            /\ lastRead'.result = lastFallback.doc
            /\ lastRead'.fetches = 0]_vars

\* C29: once a readPage call has returned and stored a fallback document for
\* a url whose download returned 404, every later readPage call on that url
\* within the ttl returns that document at once, having made no download,
\* unless a call that was awaiting its download of the url has stored the
\* page in between.
C29_FallbackServedUntilReplaced ==
  [][\A c \in Calls, input \in SameUrlInputs :
       (/\ lastFallback.doc # NullDoc
        /\ ~lastFallback.replaced
        /\ reads[c].pc = "idle"
        /\ trim(input) = lastFallback.url
        /\ now - lastFallback.at <= PageCacheTtl
        /\ ReadPageStart(c, input))
         => /\ reads'[c].pc = "idle"
            /\ lastRead'.outcome = "ok"
            /\ lastRead'.result = lastFallback.doc
            /\ lastRead'.fetches = 0]_vars

\* C29 witness: a call has returned the stored fallback document from the
\* cache, with no download.
C29_Witness ==
  /\ lastFallback.doc # NullDoc
  /\ ~lastFallback.replaced
  /\ lastRead.pc = "done"
  /\ lastRead.url = lastFallback.url
  /\ lastRead.result = lastFallback.doc
  /\ lastRead.cacheReads = 1
  /\ lastRead.fetches = 0
  /\ lastRead.status = 0

\* C22: while readPage calls on one url are in progress at once, a call that
\* missed the cache ends well only after its own download, having stored its
\* own result; the page cache holds at most the one entry of that url, which
\* after each such end is the result just stored and otherwise keeps its data;
\* and in every state the map holds no more than maxSize entries and
\* accessOrder lists exactly its keys, each once.
C22_LastSetWins ==
  [][LET ended == {c \in Calls : reads[c].pc # "idle" /\ reads'[c].pc = "idle"}
         held == DOMAIN pageCache'.cache
     IN /\ Cardinality(held) <= pageCache'.maxSize
        /\ Cardinality(held) <= 1
        /\ Range(pageCache'.accessOrder) = held
        /\ Len(pageCache'.accessOrder) = Cardinality(held)
        /\ (ended # {} /\ lastRead'.outcome = "ok")
             => /\ lastRead'.fetches >= 1
                /\ lastRead'.cacheWrites = 1
                /\ held = {createCacheKey(lastRead'.url, <<>>)}
                /\ pageCache'.cache[createCacheKey(lastRead'.url, <<>>)]
                     = [data |-> lastRead'.result, timestamp |-> now, hits |-> 0]
        /\ (ended = {} \/ lastRead'.outcome # "ok")
             => \A k \in held : /\ k \in DOMAIN pageCache.cache
                                 /\ pageCache'.cache[k].data = pageCache.cache[k].data
                                 /\ pageCache'.cache[k].timestamp
                                      = pageCache.cache[k].timestamp]_vars

\* C22 witness: two calls missed; one stored a fallback document, and within
\* its ttl the other stored the page, which is what the cache now holds.
C22_Witness ==
  /\ lastFallback.replaced
  /\ now - lastFallback.at <= PageCacheTtl
  /\ lastRead.pc = "done"
  /\ lastRead.status = 200
  /\ lastRead.cacheWrites = 1
  /\ DOMAIN pageCache.cache = {createCacheKey(lastRead.url, <<>>)}
  /\ pageCache.cache[createCacheKey(lastRead.url, <<>>)].data = lastRead.result
  /\ lastRead.result # lastFallback.doc

----------------------------------------------------------------------------
(* readPage, readPageWithOptions and getPageSummary calls in progress at   *)
(* once, with lastExpiry kept.                                             *)

\* the length of the html of the pages downloaded
MaxHtml == 2

\* readPageWithOptions(input, {maxContentLength}) up to its await of
\* downloadHTML; 0 stands for no maxContentLength
ReadPageWithOptionsStart(c, input, maxContentLength) ==
  /\ reads[c].pc = "idle"
  /\ LET r == [NoRead EXCEPT !.fn = "readPageWithOptions", !.input = input,
                             !.maxContentLength = maxContentLength]
     IN IF validateUrl(input) # "ok"
        THEN Done(c, r, "ValidationError", NullDoc)
        ELSE /\ reads' = [reads EXCEPT ![c] = [r EXCEPT !.pc = "optionsDownload",
                                                        !.url = trim(input)]]
             /\ lastRead' = lastRead
  /\ pageCache' = pageCache
  /\ UNCHANGED <<cacheVars, searchVars, calcVars>>

\* readPageWithOptions from the return of downloadHTML on
ReadPageWithOptionsReturn(c, fetched) ==
  /\ reads[c].pc = "optionsDownload"
  /\ LET r == [reads[c] EXCEPT !.fetches = @ + 1, !.status = fetched.statusCode]
     IN IF fetched.threw \/ fetched.statusCode >= 400
        THEN Done(c, r, "NetworkError", NullDoc)
        ELSE IF r.maxContentLength # 0 /\ MaxHtml > r.maxContentLength
        THEN Done(c, r, "ScrapingError", NullDoc)
        ELSE IF fetched.page.pipeline # "ok"
        THEN Done(c, r, IF fetched.page.pipeline = "ConversionError"
                        THEN "ConversionError" ELSE "ScrapingError", NullDoc)
        ELSE Done(c, r, "ok", Document(fetched, "Untitled Document"))
  /\ pageCache' = pageCache
  /\ UNCHANGED <<cacheVars, searchVars, calcVars>>

\* getPageSummary(input) up to its await of downloadHTML
GetPageSummaryStart(c, input) ==
  /\ reads[c].pc = "idle"
  /\ LET r == [NoRead EXCEPT !.fn = "getPageSummary", !.input = input]
     IN IF validateUrl(input) # "ok"
        THEN Done(c, r, "ValidationError", NullDoc)
        ELSE /\ reads' = [reads EXCEPT ![c] = [r EXCEPT !.pc = "summaryDownload",
                                                        !.url = trim(input)]]
             /\ lastRead' = lastRead
  /\ pageCache' = pageCache
  /\ UNCHANGED <<cacheVars, searchVars, calcVars>>

\* getPageSummary storing its summary in the page cache
GetPageSummaryReturn_cached(c, fetched) ==
  /\ reads[c].pc = "summaryDownload"
  /\ LET r == [reads[c] EXCEPT !.fetches = @ + 1, !.status = fetched.statusCode]
         summary == [Document(fetched, "Untitled Document") EXCEPT
                       !.content = <<Part("description", <<>>)>>]
     IN IF fetched.threw \/ fetched.statusCode >= 400
        THEN /\ pageCache' = pageCache
             /\ Done(c, r, "NetworkError", NullDoc)
        ELSE /\ pageCache' = set(pageCache, createCacheKey(r.url, <<>>), summary, now).st
             /\ Done(c, [r EXCEPT !.cacheWrites = @ + 1], "ok", summary)
  /\ UNCHANGED <<cacheVars, searchVars, calcVars>>

\* getPageSummary from the return of downloadHTML on: the url, the title and
\* the description of the page
GetPageSummaryReturn(c, fetched) ==
  /\ reads[c].pc = "summaryDownload"
  /\ LET r == [reads[c] EXCEPT !.fetches = @ + 1, !.status = fetched.statusCode]
     IN IF fetched.threw \/ fetched.statusCode >= 400
        THEN Done(c, r, "NetworkError", NullDoc)
        ELSE Done(c, r, "ok", [Document(fetched, "Untitled Document") EXCEPT
                                 !.content = <<Part("description", <<>>)>>])
  /\ pageCache' = pageCache
  /\ UNCHANGED <<cacheVars, searchVars, calcVars>>

\* lastExpiry after a step of the readPage call in slot c: a call whose cache
\* read finds the key in the map and misses has removed an expired entry
LogExpiry(c) ==
  lastExpiry' =
    IF reads[c].pc = "idle" /\ reads'[c].pc = "download"
    THEN [lastExpiry EXCEPT
            !.by = IF createCacheKey(reads'[c].url, <<>>) \in DOMAIN pageCache.cache
                   THEN @ \cup {c} ELSE @ \ {c}]
    ELSE IF reads[c].pc # "idle" /\ reads'[c].pc = "idle"
    THEN [by |-> lastExpiry.by \ {c},
          failed |-> lastExpiry.failed
                       \/ (c \in lastExpiry.by /\ lastRead'.outcome # "ok")]
    ELSE lastExpiry

\* the urls asked for
ToolInputs ==
  {<<"https://developer.tenable.com/reference/scans">>,
   <<"https://eviltenable.com/reference/scans">>}

PageToolsNext ==
  \/ DayPasses
  \/ \E c \in Calls, input \in ToolInputs :
       ReadPageStart(c, input) /\ LogExpiry(c) /\ UNCHANGED <<handlerVars, lastFallback>>
  \/ \E c \in Calls : \E fetched \in downloadHTML(reads[c].url) :
       DownloadReturn(c, fetched) /\ LogExpiry(c) /\ UNCHANGED <<handlerVars, lastFallback>>
  \/ \E c \in Calls : \E fetched \in downloadHTML(fallbackUrl) :
       FallbackReturn(c, fetched) /\ LogExpiry(c) /\ UNCHANGED <<handlerVars, lastFallback>>
  \/ \E c \in Calls, input \in ToolInputs, maxContentLength \in {0, 1, MaxHtml} :
       ReadPageWithOptionsStart(c, input, maxContentLength) /\ UNCHANGED <<handlerVars, logVars>>
  \/ \E c \in Calls : \E fetched \in downloadHTML(reads[c].url) :
       ReadPageWithOptionsReturn(c, fetched) /\ UNCHANGED <<handlerVars, logVars>>
  \/ \E c \in Calls, input \in ToolInputs :
       GetPageSummaryStart(c, input) /\ UNCHANGED <<handlerVars, logVars>>
  \/ \E c \in Calls : \E fetched \in downloadHTML(reads[c].url) :
       GetPageSummaryReturn(c, fetched) /\ UNCHANGED <<handlerVars, logVars>>

PageToolsSpec == ReadInit /\ [][PageToolsNext]_vars

\* C28 as stated: a readPage call that ends in an error leaves the page cache
\* as it found it, and readPageWithOptions and getPageSummary never read or
\* write the page cache
C28_ErrorLeavesCacheUnchanged ==
  /\ ~lastExpiry.failed
  /\ lastRead.outcome \notin {"ok", "none"} => lastRead.cacheWrites = 0
  /\ lastRead.fn # "readPage" => lastRead.cacheReads = 0 /\ lastRead.cacheWrites = 0

\* C28: a readPage call that ends in an error stores nothing in the page
\* cache, and the step in which it ends leaves the cache alone; the only
\* entry a readPage call removes is an expired entry of its own key, removed
\* by its cache read, whatever the end of the call; readPageWithOptions and
\* getPageSummary never read or write the page cache
C28_ErrorStoresNothing ==
  [][LET ended == lastRead' # lastRead
         other == \E c \in Calls :
                    /\ reads'[c] # reads[c]
                    /\ \/ reads[c].pc \in {"optionsDownload", "summaryDownload"}
                       \/ reads'[c].pc \in {"optionsDownload", "summaryDownload"}
     IN /\ (ended /\ lastRead'.outcome # "ok")
             => pageCache' = pageCache /\ lastRead'.cacheWrites = 0
        /\ (ended /\ lastRead'.fn # "readPage")
             => /\ pageCache' = pageCache
                /\ lastRead'.cacheReads = 0 /\ lastRead'.cacheWrites = 0
        /\ other => pageCache' = pageCache
        /\ \A k \in DOMAIN pageCache.cache \ DOMAIN pageCache'.cache :
             /\ now - pageCache.cache[k].timestamp > pageCache.ttl
             /\ \E c \in Calls :
                  /\ reads[c].pc = "idle" /\ reads'[c].pc = "download"
                  /\ k = createCacheKey(reads'[c].url, <<>>)]_vars

\* a readPage call whose cache read removed an expired entry has ended in an
\* error, and a readPageWithOptions or getPageSummary call has returned a
\* document while the cache held an entry
C28_Witness ==
  /\ lastExpiry.failed
  /\ lastRead.fn # "readPage" /\ lastRead.pc = "done" /\ lastRead.outcome = "ok"
  /\ DOMAIN pageCache.cache # {}

----------------------------------------------------------------------------
(* The CallTool handler of the server. reply is the answer to the tool     *)
(* request that ended last.                                                *)

\* the subclasses of TenableMCPError
TenableMCPErrors ==
  {"ValidationError", "NetworkError", "ScrapingError", "ConversionError", "SearchError"}

\* error.code of a TenableMCPError
ErrorCode(class) ==
  CASE class = "ValidationError" -> "VALIDATION_ERROR"
    [] class = "NetworkError" -> "NETWORK_ERROR"
    [] class = "ScrapingError" -> "SCRAPING_ERROR"
    [] class = "ConversionError" -> "CONVERSION_ERROR"
    [] class = "SearchError" -> "SEARCH_ERROR"

\* error.details: the validation errors are constructed from a message alone
ErrorDetails(class) == IF class = "ValidationError" THEN Undefined ELSE "details"

\* a request: the tool name, and args.query or args.url by its type and value
Request(name, args) == [NoReply EXCEPT !.name = name, !.type = args.type, !.arg = args.value]

\* the handler with no branch for the errors that are not TenableMCPErrors
CallToolReply_rethrowUnknown(req, cause, message, results, doc) ==
  IF cause = ""
  THEN [req EXCEPT !.kind = "returned", !.results = results, !.doc = doc]
  ELSE IF cause \in TenableMCPErrors
  THEN [req EXCEPT !.kind = "returned", !.cause = cause, !.isError = TRUE,
                   !.code = ErrorCode(cause), !.message = message,
                   !.details = ErrorDetails(cause)]
  ELSE [req EXCEPT !.kind = "thrown", !.cause = cause, !.message = message]

\* what the handler does with the end of its try block: the result of the
\* tool (cause "") goes into a content payload, an error into an isError one
CallToolReply(req, cause, message, results, doc) ==
  IF cause = ""
  THEN [req EXCEPT !.kind = "returned", !.results = results, !.doc = doc]
  ELSE IF cause \in TenableMCPErrors
  THEN [req EXCEPT !.kind = "returned", !.cause = cause, !.isError = TRUE,
                   !.code = ErrorCode(cause), !.message = message,
                   !.details = ErrorDetails(cause)]
  ELSE [req EXCEPT !.kind = "returned", !.cause = cause, !.isError = TRUE,
                   !.code = "UNKNOWN_ERROR",
                   !.message = "An unexpected error occurred",
                   !.details = message]

\* !query, !url
Missing(args) ==
  \/ args.type = "undefined"
  \/ args.type = "string" /\ args.value = <<>>

\* the reply to a read_page request whose readPage call has just ended; no
\* reply while the call awaits a download
ReadPageReply(c) ==
  reply' = IF reads'[c].pc = "idle"
           THEN CallToolReply(Request("read_page", [type |-> "string", value |-> lastRead'.input]),
                              IF lastRead'.outcome = "ok" THEN "" ELSE lastRead'.outcome,
                              "message", <<>>, lastRead'.result)
           ELSE reply

\* case 'search_docs'; searchDocs of an argument that is no string throws at
\* its typeof check
CallToolSearchDocs(args) ==
  LET req == Request("search_docs", args)
  IN IF Missing(args)
     THEN /\ reply' = CallToolReply(req, "ValidationError",
                                    "Missing required parameter: query", <<>>, NullDoc)
          /\ UNCHANGED <<searchVars, cacheVars, readVars, logVars, calcVars>>
     ELSE IF args.type # "string"
     THEN /\ reply' = CallToolReply(req, "ValidationError",
                                    "Search query must be a non-empty string", <<>>, NullDoc)
          /\ UNCHANGED <<searchVars, cacheVars, readVars, logVars, calcVars>>
     ELSE /\ LET r == searchDocs(searchIndex, args.value)
             IN reply' = CallToolReply(req, IF r.outcome = "ok" THEN "" ELSE r.outcome,
                                       "message", r.results, NullDoc)
          /\ UNCHANGED <<searchVars, cacheVars, readVars, logVars, calcVars>>

\* case 'read_page' up to the first await of readPage; validateUrl of an
\* argument that is no string throws at its typeof check
CallToolReadPage(c, args) ==
  LET req == Request("read_page", args)
  IN IF Missing(args)
     THEN /\ reply' = CallToolReply(req, "ValidationError",
                                    "Missing required parameter: url", <<>>, NullDoc)
          /\ UNCHANGED <<searchVars, cacheVars, readVars, logVars, calcVars>>
     ELSE IF args.type # "string"
     THEN /\ reply' = CallToolReply(req, "ValidationError",
                                    "URL must be a non-empty string", <<>>, NullDoc)
          /\ UNCHANGED <<searchVars, cacheVars, readVars, logVars, calcVars>>
     ELSE /\ ReadPageStart(c, args.value)
          /\ ReadPageReply(c)
          /\ UNCHANGED logVars

\* case 'read_page' from the return of the download of the page on
CallToolDownloadReturn(c, fetched) ==
  /\ DownloadReturn(c, fetched)
  /\ ReadPageReply(c)
  /\ UNCHANGED logVars

\* case 'read_page' from the return of the download of the base page on
CallToolFallbackReturn(c, fetched) ==
  /\ FallbackReturn(c, fetched)
  /\ ReadPageReply(c)
  /\ UNCHANGED logVars

\* default: throw new Error(`Unknown tool: ${name}`)
CallToolDefault(name, args) ==
  /\ reply' = CallToolReply(Request(name, args), "Error", "Unknown tool", <<>>, NullDoc)
  /\ UNCHANGED <<searchVars, cacheVars, readVars, logVars, calcVars>>

\* the arguments that are no string: none, a number
OtherArgs == {[type |-> "undefined", value |-> <<>>], [type |-> "number", value |-> <<>>]}

\* args.query of the search_docs requests
QueryArgs ==
  OtherArgs \cup
  {[type |-> "string", value |-> q] :
     q \in {<<>>, <<"a">>, <<"a", "p", "i">>, <<" ", "a", "p", "i", " ">>,
            <<"s", "c", "a", "n">>, <<"u", "s", "e", "r", "s">>,
            [i \in 1..MaxQueryLength |-> "x"], [i \in 1..(MaxQueryLength + 1) |-> "x"]}}

\* args.url of the read_page requests
UrlArgs ==
  OtherArgs \cup
  {[type |-> "string", value |-> u] :
     u \in {<<>>,
            <<"https://developer.tenable.com/reference/scans">>,
            <<"https://eviltenable.com/reference/scans">>,
            <<"not", " ", "a", " ", "url">>}}

\* the tool names of the requests that name no tool of the server
UnknownTools == {"", "Search_Docs"}

\* the seed pages an index of the server would be built from
ServerFetches ==
  {<<f1, f2>> : f1 \in InitReferenceFetches, f2 \in Fetches({})}

\* the requests of a server whose main() calls initializeIndex()
HandlerNext_withInitialize ==
  \/ InitializeIndexStart(1)
  \/ \E fetched \in ServerFetches : InitializeIndexFinish(1, fetched)
  \/ \E args \in QueryArgs : CallToolSearchDocs(args)
  \/ \E args \in UrlArgs : CallToolReadPage(1, args)
  \/ \E fetched \in downloadHTML(reads[1].url) : CallToolDownloadReturn(1, fetched)
  \/ \E fetched \in downloadHTML(fallbackUrl) : CallToolFallbackReturn(1, fetched)
  \/ \E name \in UnknownTools, args \in OtherArgs : CallToolDefault(name, args)

\* the requests of the server that main() starts: createServer() sets the
\* handlers and main() connects the transport, and neither calls
\* initializeIndex(); the search_docs requests end in one step, and while a
\* read_page request awaits its downloads the other requests are answered
HandlerNext ==
  \/ \E args \in QueryArgs : CallToolSearchDocs(args)
  \/ \E args \in UrlArgs : CallToolReadPage(1, args)
  \/ \E fetched \in downloadHTML(reads[1].url) : CallToolDownloadReturn(1, fetched)
  \/ \E fetched \in downloadHTML(fallbackUrl) : CallToolFallbackReturn(1, fetched)
  \/ \E name \in UnknownTools, args \in OtherArgs : CallToolDefault(name, args)

HandlerSpec == SearchInit /\ [][HandlerNext]_vars

----------------------------------------------------------------------------
(* What the handler answers. *)

----------------------------------------------------------------------------
(* cleanMarkdown, applied to short strings of a letter, spaces, tabs and   *)
(* newlines.                                                               *)

\* the longest Markdown string cleaned
MaxMarkdown == 6

\* the characters of s at the positions at, in order
KeepAt(s, at) ==
  LET nth(j) == CHOOSE i \in at : Cardinality({k \in at : k <= i}) = j
  IN [j \in 1..Cardinality(at) |-> s[nth(j)]]

\* replace(/\n{3,}/g, '\n\n'): of a run of newlines the first two stay
CollapseNewlines(s) ==
  LET keep(i) == ~(i >= 3 /\ s[i] = "\n" /\ s[i - 1] = "\n" /\ s[i - 2] = "\n")
  IN KeepAt(s, {i \in 1..Len(s) : keep(i)})

\* replace(/[ \t]+$/gm, ''): a space or tab goes when only spaces and tabs
\* lie between it and the end of its line
StripTrailingBlanks(s) ==
  LET blank(i) == s[i] \in {" ", "\t"}
      lineEnd(j) == j = Len(s) \/ s[j + 1] = "\n"
      keep(i) == ~(blank(i) /\ \E j \in i..Len(s) :
                                   lineEnd(j) /\ \A k \in i..j : blank(k))
  IN KeepAt(s, {i \in 1..Len(s) : keep(i)})

\* replace(/^\n+|\n+$/g, ''): the newlines the string starts with and the
\* newlines it ends with go
TrimNewlines(s) ==
  LET keep(i) == /\ \E k \in 1..i : s[k] # "\n"
                 /\ \E k \in i..Len(s) : s[k] # "\n"
  IN KeepAt(s, {i \in 1..Len(s) : keep(i)})

\* cleanMarkdown(markdown)
cleanMarkdown(markdown) ==
  trim(TrimNewlines(StripTrailingBlanks(CollapseNewlines(markdown))))

\* the Markdown strings cleaned
Markdowns == UNION {[1..n -> {"a", " ", "\t", "\n"}] : n \in 0..MaxMarkdown}

MarkdownInit ==
  /\ calc \in {[fn |-> "cleanMarkdown", input |-> x, out |-> <<>>] : x \in Markdowns}
  /\ reply = NoReply
  /\ CacheIdle
  /\ SearchIdle
  /\ pageCache = NewPageCache
  /\ reads = [c \in Calls |-> NoRead]
  /\ lastRead = NoRead
  /\ lastFallback = NoFallback
  /\ lastExpiry = NoExpiry

\* cleanMarkdown applied to the string, then to its own result
CleanMarkdown ==
  /\ calc.fn = "cleanMarkdown"
  /\ Len(calc.out) < 2
  /\ calc' = [calc EXCEPT !.out = Append(@, cleanMarkdown(IF @ = <<>> THEN calc.input
                                                          ELSE @[Len(@)]))]
  /\ UNCHANGED <<cacheVars, searchVars, readVars, handlerVars, logVars>>

MarkdownNext == CleanMarkdown

MarkdownSpec == MarkdownInit /\ [][MarkdownNext]_vars

\* C11: cleaning a cleaned Markdown string changes nothing, whatever the
\* string, strings with lines of only spaces or tabs included.
C11_CleanMarkdownIdempotent ==
  (calc.fn = "cleanMarkdown" /\ Len(calc.out) = 2) => calc.out[2] = calc.out[1]

----------------------------------------------------------------------------
(* cleanHTMLPreservingCodeBlocks, applied to small documents. A document   *)
(* is the list of the nodes of its body as cheerio.load parses them; a     *)
(* node is a text node (its characters in text) or an element (its tag,    *)
(* its class and its child nodes in kids). Markup is a sequence of tokens: *)
(* a tag, a placeholder or one character of text.                          *)

\* the most nodes the body of a document has
MaxBlocks == 2

Text(t) == [tag |-> "#text", cls |-> "", text |-> t, kids |-> <<>>]

Element(tag, cls, kids) == [tag |-> tag, cls |-> cls, text |-> <<>>, kids |-> kids]

\* $.html(nodes): the serialized markup of the nodes
RECURSIVE html(_)
html(nodes) ==
  IF nodes = <<>> THEN <<>>
  ELSE LET n == Head(nodes)
           open == CASE n.tag = "pre" -> "<pre>"
                     [] n.tag = "code" /\ n.cls = "" -> "<code>"
                     [] n.tag = "code" /\ n.cls # "" -> "<code class=\"language-js\">"
                     [] n.tag = "script" -> "<script>"
                     [] n.tag = "span" -> "<span>"
                     [] n.tag = "div" -> "<div>"
                     [] n.tag = "nav" -> "<nav>"
                     [] n.tag = "main" -> "<main>"
           close == CASE n.tag = "pre" -> "</pre>"
                      [] n.tag = "code" -> "</code>"
                      [] n.tag = "script" -> "</script>"
                      [] n.tag = "span" -> "</span>"
                      [] n.tag = "div" -> "</div>"
                      [] n.tag = "nav" -> "</nav>"
                      [] n.tag = "main" -> "</main>"
       IN (IF n.tag = "#text" THEN n.text ELSE <<open>> \o html(n.kids) \o <<close>>)
          \o html(Tail(nodes))

\* find('*'): the elements among the nodes and below them, in document order
RECURSIVE find(_)
find(nodes) ==
  IF nodes = <<>> THEN <<>>
  ELSE LET n == Head(nodes)
       IN (IF n.tag = "#text" THEN <<>> ELSE <<n>> \o find(n.kids)) \o find(Tail(nodes))

\* $('pre, code[class*="language-"], code[class*="hljs"]'): the code elements
\* of the nodes, in document order
codeElements(nodes) ==
  LET isCode(n) == n.tag = "pre" \/ (n.tag = "code" /\ n.cls = "language-js")
  IN SelectSeq(find(nodes), isCode)

\* `__CODE_BLOCK_${placeholderIndex}__`, by placeholderIndex + 1
Placeholders ==
  <<"__CODE_BLOCK_0__", "__CODE_BLOCK_1__", "__CODE_BLOCK_2__", "__CODE_BLOCK_3__",
    "__CODE_BLOCK_4__", "__CODE_BLOCK_5__", "__CODE_BLOCK_6__", "__CODE_BLOCK_7__">>

\* the nodes after each code element in the document was replaced with its
\* placeholder; placeholderIndex code elements come before the nodes. A code
\* element inside a replaced one is replaced in the detached element only
RECURSIVE replaceWithPlaceholders(_, _)
replaceWithPlaceholders(nodes, placeholderIndex) ==
  IF nodes = <<>> THEN <<>>
  ELSE LET n == Head(nodes)
           first == IF n.tag = "#text" THEN n
                    ELSE IF codeElements(<<n>>) # <<>> /\ codeElements(<<n>>)[1] = n
                    THEN Text(<<Placeholders[placeholderIndex + 1]>>)
                    ELSE [n EXCEPT !.kids = replaceWithPlaceholders(n.kids, placeholderIndex)]
       IN <<first>> \o replaceWithPlaceholders(Tail(nodes),
                                               placeholderIndex + Len(codeElements(<<n>>)))

\* preserveCodeBlocks(html): codeBlocks is the Map as the sequence of its
\* entries in insertion order, the placeholder of index i at position i + 1
preserveCodeBlocks(nodes) ==
  [cleanedHtml |-> replaceWithPlaceholders(nodes, 0),
   codeBlocks |-> [i \in 1..Len(codeElements(nodes)) |->
                     [placeholder |-> Placeholders[i],
                      originalCode |-> html(<<codeElements(nodes)[i]>>)]]]

\* $(selector).remove() for the removeSelectors: of the tags of the documents
\* nav and script are selected
RECURSIVE removeUnwanted(_)
removeUnwanted(nodes) ==
  IF nodes = <<>> THEN <<>>
  ELSE LET n == Head(nodes)
       IN (IF n.tag \in {"nav", "script"} THEN <<>>
           ELSE <<[n EXCEPT !.kids = removeUnwanted(n.kids)]>>)
          \o removeUnwanted(Tail(nodes))

\* the filter of cleanHTML: text().trim() is empty and there are no children
isEmptyElement(n) ==
  /\ n.tag # "#text"
  /\ \A i \in 1..Len(n.kids) :
       n.kids[i].tag = "#text" /\ \A j \in 1..Len(n.kids[i].text) : IsSpace(n.kids[i].text[j])

\* filter(...).remove(): the elements the filter selects are taken out
RECURSIVE removeEmpty(_)
removeEmpty(nodes) ==
  IF nodes = <<>> THEN <<>>
  ELSE LET n == Head(nodes)
       IN (IF isEmptyElement(n) THEN <<>>
           ELSE <<[n EXCEPT !.kids = removeEmpty(n.kids)]>>)
          \o removeEmpty(Tail(nodes))

\* cleanHTML(html): the unwanted elements go; content is the first main
\* element, else the root; below content the empty elements go (the empty head
\* of the document too); end() goes back from the filtered set to the set of
\* find('*'), and html() is the inner markup of its first element: the html
\* element below the root, else the first element below main ('' when there
\* is none)
cleanHTML(nodes) ==
  LET kept == removeUnwanted(nodes)
      isMain(n) == n.tag = "main"
      mains == SelectSeq(find(kept), isMain)
      body == Element("body", "", kept)
      found == find(mains[1].kids)
  IN IF mains = <<>>
     THEN IF isEmptyElement(body) THEN <<>>
          ELSE <<"<body>">> \o html(removeEmpty(kept)) \o <<"</body>">>
     ELSE IF found = <<>> THEN <<>>
     ELSE html(removeEmpty(found[1].kids))

\* the replacement text of String.prototype.replace(pattern, replacement)
\* for a string pattern matched at position in str: $$ stands for one $, $&
\* for the match, $` for what is before it and $' for what is after it
RECURSIVE GetSubstitution(_, _, _, _)
GetSubstitution(matched, str, position, replacement) ==
  LET next == replacement[2]
      then == GetSubstitution(matched, str, position, SubSeq(replacement, 3, Len(replacement)))
  IN IF replacement = <<>> THEN <<>>
     ELSE IF Len(replacement) >= 2 /\ replacement[1] = "$" /\ next = "$"
     THEN <<"$">> \o then
     ELSE IF Len(replacement) >= 2 /\ replacement[1] = "$" /\ next = "&"
     THEN <<matched>> \o then
     ELSE IF Len(replacement) >= 2 /\ replacement[1] = "$" /\ next = Backtick
     THEN SubSeq(str, 1, position - 1) \o then
     ELSE IF Len(replacement) >= 2 /\ replacement[1] = "$" /\ next = "'"
     THEN SubSeq(str, position + 1, Len(str)) \o then
     ELSE <<replacement[1]>>
          \o GetSubstitution(matched, str, position, Tail(replacement))

\* restoreCodeBlocks(html, codeBlocks) from the entry at position i on:
\* replace(placeholder, originalCode) replaces the first occurrence
RECURSIVE restoreCodeBlocks(_, _, _)
restoreCodeBlocks(restoredHtml, codeBlocks, i) ==
  IF i > Len(codeBlocks) THEN restoredHtml
  ELSE LET placeholder == codeBlocks[i].placeholder
           at == {k \in 1..Len(restoredHtml) : restoredHtml[k] = placeholder}
           k == CHOOSE k \in at : \A l \in at : k <= l
       IN restoreCodeBlocks(IF at = {} THEN restoredHtml
                            ELSE SubSeq(restoredHtml, 1, k - 1)
                                 \o GetSubstitution(placeholder, restoredHtml, k,
                                                    codeBlocks[i].originalCode)
                                 \o SubSeq(restoredHtml, k + 1, Len(restoredHtml)),
                            codeBlocks, i + 1)

\* cleanHTMLPreservingCodeBlocks(html); cheerio.load of the markup of
\* preserveCodeBlocks gives its nodes back, adjacent text nodes as one
cleanHTMLPreservingCodeBlocks(nodes) ==
  LET preserved == preserveCodeBlocks(nodes)
  IN restoreCodeBlocks(cleanHTML(preserved.cleanedHtml), preserved.codeBlocks, 1)

\* the documents cleaned: in the body up to MaxBlocks nodes, each a text, an
\* empty span, a code element (a pre, a pre with $$, a code with a language
\* class, a pre around such a code, a pre around a script) or a div, nav or
\* main around one of these
Documents ==
  LET code == Element("code", "language-js", <<Text(<<"x">>)>>)
      leaves == {Text(<<"t">>),
                 Element("span", "", <<>>),
                 Element("pre", "", <<Text(<<"x">>)>>),
                 Element("pre", "", <<Text(<<"$", "$">>)>>),
                 code,
                 Element("pre", "", <<code>>),
                 Element("pre", "", <<Element("script", "", <<Text(<<"x">>)>>)>>)}
      blocks == leaves \cup {Element(tag, "", <<n>>) : tag \in {"div", "nav", "main"},
                                                     n \in leaves}
  IN UNION {[1..n -> blocks] : n \in 0..MaxBlocks}

HtmlInit ==
  /\ calc \in {[fn |-> "cleanHTMLPreservingCodeBlocks", input |-> x, out |-> <<>>] :
                 x \in Documents}
  /\ reply = NoReply
  /\ CacheIdle
  /\ SearchIdle
  /\ pageCache = NewPageCache
  /\ reads = [c \in Calls |-> NoRead]
  /\ lastRead = NoRead
  /\ lastFallback = NoFallback
  /\ lastExpiry = NoExpiry

CleanHTMLPreservingCodeBlocks ==
  /\ calc.fn = "cleanHTMLPreservingCodeBlocks"
  /\ calc.out = <<>>
  /\ calc' = [calc EXCEPT !.out = <<cleanHTMLPreservingCodeBlocks(calc.input)>>]
  /\ UNCHANGED <<cacheVars, searchVars, readVars, handlerVars, logVars>>

HtmlNext == CleanHTMLPreservingCodeBlocks

HtmlSpec == HtmlInit /\ [][HtmlNext]_vars

\* whether the markup sub occurs in the markup s
OccursIn(sub, s) == \E i \in 0..(Len(s) - Len(sub)) : SubSeq(s, i + 1, i + Len(sub)) = sub

\* C12: the markup of every element preserveCodeBlocks extracted occurs
\* unchanged in the markup cleanHTMLPreservingCodeBlocks returns, whatever
\* the cleaner removes around the placeholder.
C12_PreservedElementsReappear ==
  (calc.fn = "cleanHTMLPreservingCodeBlocks" /\ calc.out # <<>>)
    => LET codeBlocks == preserveCodeBlocks(calc.input).codeBlocks
       IN \A i \in 1..Len(codeBlocks) : OccursIn(codeBlocks[i].originalCode, calc.out[1])

----------------------------------------------------------------------------
(* extractDocLinks, applied to the anchors of a seed page. An anchor is    *)
(* the value of its href attribute and its text, both sequences of         *)
(* characters; a url is a sequence of characters.                          *)

\* the most a[href] elements a seed page has
MaxAnchors == 2

Https == <<"h", "t", "t", "p", "s", ":", "/", "/">>

\* String.prototype.startsWith
StartsWith(s, prefix) == Len(s) >= Len(prefix) /\ SubSeq(s, 1, Len(prefix)) = prefix

\* new URL(url) of a url without port, credentials or fragment: it throws
\* (ok is FALSE) unless the url starts with http:// or https://; the host
\* name runs to the first "/" or "?", in lower case, and the path from there
\* to the first "?", "/" when there is none
parseURL(url) ==
  LET http == <<"h", "t", "t", "p", ":", "/", "/">>
      from == IF StartsWith(url, Https) THEN Len(Https) + 1
              ELSE IF StartsWith(url, http) THEN Len(http) + 1 ELSE 0
      hostEnds == {i \in from..Len(url) : url[i] \in {"/", "?"}}
      hostEnd == IF hostEnds = {} THEN Len(url) + 1
                 ELSE CHOOSE i \in hostEnds : \A j \in hostEnds : i <= j
      pathEnds == {i \in hostEnd..Len(url) : url[i] = "?"}
      pathEnd == IF pathEnds = {} THEN Len(url) + 1
                 ELSE CHOOSE i \in pathEnds : \A j \in pathEnds : i <= j
      path == SubSeq(url, hostEnd, pathEnd - 1)
  IN IF from = 0 \/ hostEnd = from
     THEN [ok |-> FALSE, hostname |-> <<>>, pathname |-> <<>>]
     ELSE [ok |-> TRUE,
           hostname |-> toLowerCase(SubSeq(url, from, hostEnd - 1)),
           pathname |-> IF path = <<>> THEN <<"/">> ELSE path]

\* replace(/\s+/g, ' '): of a run of whitespace one space stays
CollapseSpaces(s) ==
  LET keep == {i \in 1..Len(s) : ~(IsSpace(s[i]) /\ i > 1 /\ IsSpace(s[i - 1]))}
      spaced == [i \in 1..Len(s) |-> IF IsSpace(s[i]) THEN " " ELSE s[i]]
  IN KeepAt(spaced, keep)

\* extractKeywordsFromUrl(url) with the stopwords filtered out as
\* extractKeywordsFromText filters them
extractKeywordsFromUrl_noStopWords(url) ==
  LET urlObj == parseURL(url)
      spaced == [i \in 1..Len(urlObj.pathname) |->
                   IF urlObj.pathname[i] \in {"/", "-", "_"} THEN " " ELSE urlObj.pathname[i]]
      path == trim(CollapseSpaces(spaced))
      isKeyword(word) == Len(word) > MinKeywordLength /\ word \notin StopWords
  IN IF ~urlObj.ok \/ path = <<>> THEN <<>>
     ELSE SelectSeq(SplitOnWhitespace(toLowerCase(path)), isKeyword)

\* extractKeywordsFromUrl(url): the path with "/", "-" and "_" turned into
\* spaces, whitespace collapsed and trimmed, in lower case, split on " ",
\* the words longer than 2 kept; no keyword when new URL throws
extractKeywordsFromUrl(url) ==
  LET urlObj == parseURL(url)
      spaced == [i \in 1..Len(urlObj.pathname) |->
                   IF urlObj.pathname[i] \in {"/", "-", "_"} THEN " " ELSE urlObj.pathname[i]]
      path == trim(CollapseSpaces(spaced))
      isKeyword(word) == Len(word) > MinKeywordLength
  IN IF ~urlObj.ok \/ path = <<>> THEN <<>>
     ELSE SelectSeq(SplitOnWhitespace(toLowerCase(path)), isKeyword)

\* [...new Set(words)]: the first occurrence of each word, in order
Unique(words) ==
  KeepAt(words, {i \in 1..Len(words) : \A j \in 1..(i - 1) : words[j] # words[i]})

\* extractDocLinks(html, category) with the host of the url compared to the
\* permitted domain
RECURSIVE extractDocLinks_hostChecked(_, _)
extractDocLinks_hostChecked(anchors, category) ==
  IF anchors = <<>> THEN <<>>
  ELSE LET href == Head(anchors).href
           text == trim(Head(anchors).text)
           fullUrl == IF StartsWith(href, <<"h", "t", "t", "p">>) THEN href
                      ELSE Https \o H_developer_tenable_com \o href
           keywords == Unique(extractKeywordsFromUrl(fullUrl) \o extractKeywordsFromText(text))
           rest == extractDocLinks_hostChecked(Tail(anchors), category)
       IN IF href = <<>> \/ text = <<>> THEN rest
          ELSE IF ~StartsWith(href, <<"h", "t", "t", "p">>) /\ ~StartsWith(href, <<"/">>) THEN rest
          ELSE IF parseURL(fullUrl).hostname # H_developer_tenable_com THEN rest
          ELSE <<IndexedDoc(fullUrl, category, keywords)>> \o rest

\* extractDocLinks(html, category) on the a[href] elements of html in
\* document order: an anchor without href or text, a relative href without a
\* leading "/" and a url that does not contain developer.tenable.com add
\* nothing; the others add an entry with the keywords of the url and the text
RECURSIVE extractDocLinks(_, _)
extractDocLinks(anchors, category) ==
  IF anchors = <<>> THEN <<>>
  ELSE LET href == Head(anchors).href
           text == trim(Head(anchors).text)
           fullUrl == IF StartsWith(href, <<"h", "t", "t", "p">>) THEN href
                      ELSE Https \o H_developer_tenable_com \o href
           keywords == Unique(extractKeywordsFromUrl(fullUrl) \o extractKeywordsFromText(text))
           rest == extractDocLinks(Tail(anchors), category)
       IN IF href = <<>> \/ text = <<>> THEN rest
          ELSE IF ~StartsWith(href, <<"h", "t", "t", "p">>) /\ ~StartsWith(href, <<"/">>) THEN rest
          ELSE IF ~OccursIn(H_developer_tenable_com, fullUrl) THEN rest
          ELSE <<IndexedDoc(fullUrl, category, keywords)>> \o rest

\* the href attributes of the anchors
Hrefs ==
  LET refApi == <<"/", "r", "e", "f", "/", "a", "p", "i">>
      theScan == <<"/", "t", "h", "e", "-", "S", "c", "a", "n", "_", "x">>
  IN {<<>>,
      <<"x">>,
      theScan,
      Https \o H_developer_tenable_com,
      Https \o H_developer_tenable_com \o refApi,
      Https \o H_eviltenable_com \o refApi,
      Https \o H_example_com \o <<"/", "?", "q", "=">> \o H_developer_tenable_com,
      Https \o H_example_com \o <<"/">> \o H_developer_tenable_com,
      <<"h", "t", "t", "p">> \o H_developer_tenable_com}

\* the texts of the anchors
LinkTexts ==
  {<<>>,
   <<" ", "S", "c", "a", "n", " ", "A", "P", "I", " ">>,
   <<"T", "h", "e", " ", "a", "b", " ", "A", "s", "s", "e", "t", "s", "!">>}

Anchors == {[href |-> h, text |-> t] : h \in Hrefs, t \in LinkTexts}

LinksInit ==
  /\ calc \in {[fn |-> "extractDocLinks", input |-> x, out |-> <<>>] :
                 x \in UNION {[1..n -> Anchors] : n \in 0..MaxAnchors}}
  /\ CacheIdle
  /\ SearchIdle
  /\ ReadIdle

ExtractDocLinks ==
  /\ calc.fn = "extractDocLinks"
  /\ calc.out = <<>>
  /\ calc' = [calc EXCEPT !.out = <<extractDocLinks(calc.input, "Recipes")>>]
  /\ UNCHANGED <<cacheVars, searchVars, readVars, handlerVars, logVars>>

LinksNext == ExtractDocLinks

LinksSpec == LinksInit /\ [][LinksNext]_vars

\* C23: every keyword of every entry extractDocLinks returns, from the url or
\* from the text, is in lower case, longer than 2 characters and none of the
\* stopwords and, the, for, with, api.
C23_KeywordsAreFiltered ==
  (calc.fn = "extractDocLinks" /\ calc.out # <<>>)
    => \A n \in 1..Len(calc.out[1]) :
         \A k \in 1..Len(calc.out[1][n].keywords) :
           LET word == calc.out[1][n].keywords[k]
           IN /\ word = toLowerCase(word)
              /\ Len(word) > 2
              /\ word \notin StopWords

\* C24: the url of every entry extractDocLinks returns is a url whose host is
\* developer.tenable.com, wherever else the name occurs in the url.
C24_EntriesAreOnPermittedHost ==
  (calc.fn = "extractDocLinks" /\ calc.out # <<>>)
    => \A n \in 1..Len(calc.out[1]) :
         /\ parseURL(calc.out[1][n].url).ok
         /\ parseURL(calc.out[1][n].url).hostname = H_developer_tenable_com

----------------------------------------------------------------------------
(* countWords, applied to Markdown strings made of a few pieces: prose,    *)
(* a fenced code block, an inline code span, a link, an image. A string is *)
(* a sequence of characters.                                               *)

\* the most pieces a Markdown string is made of
MaxPieces == 3

\* the first position from from on where s has the character c, 0 if none
FirstOf(s, c, from) ==
  LET at == {i \in from..Len(s) : s[i] = c}
  IN IF at = {} THEN 0 ELSE CHOOSE i \in at : \A j \in at : i <= j

\* replace(/```[\s\S]*?```/g, '') from position i on: a fence and all that
\* follows up to the next fence go
RECURSIVE RemoveFences(_, _)
RemoveFences(s, i) ==
  LET fence == <<Backtick, Backtick, Backtick>>
      isFence(j) == j + 2 <= Len(s) /\ SubSeq(s, j, j + 2) = fence
      closes == {j \in (i + 3)..Len(s) : isFence(j)}
      close == CHOOSE j \in closes : \A l \in closes : j <= l
  IN IF i > Len(s) THEN <<>>
     ELSE IF isFence(i) /\ closes # {} THEN RemoveFences(s, close + 3)
     ELSE <<s[i]>> \o RemoveFences(s, i + 1)

\* replace(/`[^`]+`/g, '') from position i on
RECURSIVE RemoveInlineCode(_, _)
RemoveInlineCode(s, i) ==
  LET close == FirstOf(s, Backtick, i + 1)
  IN IF i > Len(s) THEN <<>>
     ELSE IF s[i] = Backtick /\ close >= i + 2 THEN RemoveInlineCode(s, close + 1)
     ELSE <<s[i]>> \o RemoveInlineCode(s, i + 1)

\* replace(/\[([^\]]+)\]\([^)]+\)/g, '$1') from position i on
RECURSIVE KeepLinkText(_, _)
KeepLinkText(s, i) ==
  LET textEnd == FirstOf(s, "]", i + 1)
      urlEnd == FirstOf(s, ")", textEnd + 2)
  IN IF i > Len(s) THEN <<>>
     ELSE IF /\ s[i] = "[" /\ textEnd >= i + 2
             /\ textEnd + 1 <= Len(s) /\ s[textEnd + 1] = "("
             /\ urlEnd >= textEnd + 3
     THEN SubSeq(s, i + 1, textEnd - 1) \o KeepLinkText(s, urlEnd + 1)
     ELSE <<s[i]>> \o KeepLinkText(s, i + 1)

\* replace(/!\[[^\]]*\]\([^)]+\)/g, '') from position i on
RECURSIVE RemoveImages(_, _)
RemoveImages(s, i) ==
  LET altEnd == FirstOf(s, "]", i + 2)
      urlEnd == FirstOf(s, ")", altEnd + 2)
  IN IF i > Len(s) THEN <<>>
     ELSE IF /\ s[i] = "!" /\ i + 1 <= Len(s) /\ s[i + 1] = "[" /\ altEnd >= i + 2
             /\ altEnd + 1 <= Len(s) /\ s[altEnd + 1] = "("
             /\ urlEnd >= altEnd + 3
     THEN RemoveImages(s, urlEnd + 1)
     ELSE <<s[i]>> \o RemoveImages(s, i + 1)

\* countWords(markdown) with the images removed before the links
countWords_imagesFirst(markdown) ==
  LET withoutCodeBlocks == RemoveFences(markdown, 1)
      withoutInlineCode == RemoveInlineCode(withoutCodeBlocks, 1)
      withoutImages == RemoveImages(withoutInlineCode, 1)
      withoutLinks == KeepLinkText(withoutImages, 1)
      notEmpty(word) == Len(trim(word)) > 0
  IN Len(SelectSeq(SplitOnWhitespace(withoutLinks), notEmpty))

\* countWords(markdown)
countWords(markdown) ==
  LET withoutCodeBlocks == RemoveFences(markdown, 1)
      withoutInlineCode == RemoveInlineCode(withoutCodeBlocks, 1)
      withoutLinks == KeepLinkText(withoutInlineCode, 1)
      withoutImages == RemoveImages(withoutLinks, 1)
      notEmpty(word) == Len(trim(word)) > 0
  IN Len(SelectSeq(SplitOnWhitespace(withoutImages), notEmpty))

\* the pieces: their Markdown and the prose words they hold
Pieces ==
  {[kind |-> "prose", words |-> 2, markdown |-> <<"a", " ", "b">>],
   [kind |-> "fence", words |-> 0,
    markdown |-> <<Backtick, Backtick, Backtick, "j", "s", "\n", "x", " ", "y", "\n", Backtick, Backtick, Backtick>>],
   [kind |-> "inline", words |-> 0, markdown |-> <<Backtick, "x", " ", "y", Backtick>>],
   [kind |-> "link", words |-> 2,
    markdown |-> <<"[", "t", " ", "u", "]", "(", "h", ")">>],
   [kind |-> "image", words |-> 0, markdown |-> <<"!", "[", "]", "(", "h", ")">>],
   [kind |-> "image", words |-> 0, markdown |-> <<"!", "[", "i", "]", "(", "h", ")">>]}

\* the pieces one after the other, a space behind each
RECURSIVE Markdown(_)
Markdown(pieces) ==
  IF pieces = <<>> THEN <<>>
  ELSE Head(pieces).markdown \o <<" ">> \o Markdown(Tail(pieces))

\* the prose words of the pieces
RECURSIVE ProseWords(_)
ProseWords(pieces) ==
  IF pieces = <<>> THEN 0 ELSE Head(pieces).words + ProseWords(Tail(pieces))

WordsInit ==
  /\ calc \in {[fn |-> "countWords", input |-> x, out |-> <<>>] :
                 x \in UNION {[1..n -> Pieces] : n \in 0..MaxPieces}}
  /\ CacheIdle
  /\ SearchIdle
  /\ ReadIdle

CountWords ==
  /\ calc.fn = "countWords"
  /\ calc.out = <<>>
  /\ calc' = [calc EXCEPT !.out = <<countWords(Markdown(calc.input))>>]
  /\ UNCHANGED <<cacheVars, searchVars, readVars, handlerVars, logVars>>

WordsNext == CountWords

WordsSpec == WordsInit /\ [][WordsNext]_vars

\* C25: the count of a Markdown string is the number of its prose words and
\* of the words of its link texts: fenced code, inline code and images, with
\* or without alt text, add nothing.
C25_OnlyProseCounted ==
  (calc.fn = "countWords" /\ calc.out # <<>>) => calc.out[1] = ProseWords(calc.input)

----------------------------------------------------------------------------
(* restoreCodeBlocks, applied to markup with placeholders and to maps of   *)
(* up to two entries, in either insertion order.                           *)

\* the most tokens the markup given to restoreCodeBlocks has
MaxTokens == 3

\* the saved markup of a code element: plain, with $$, with $&, and markup
\* that holds the text of the other placeholder
OriginalCodes(other) ==
  {<<"<pre>", "x", "</pre>">>,
   <<"<pre>", "$", "$", "</pre>">>,
   <<"<pre>", "$", "&", "</pre>">>,
   <<"<pre>", other, "</pre>">>}

\* the maps: no entry, one entry, or an entry for each of the first two
\* placeholders in either order
CodeBlockMaps ==
  LET entries(i) == {[placeholder |-> Placeholders[i], originalCode |-> o] :
                       o \in OriginalCodes(Placeholders[3 - i])}
  IN {<<>>} \cup {<<e>> : e \in entries(1) \cup entries(2)}
     \cup {<<e, f>> : e \in entries(1), f \in entries(2)}
     \cup {<<f, e>> : e \in entries(1), f \in entries(2)}

\* the markup restored: text and placeholders
PlaceholderMarkups ==
  UNION {[1..n -> {"t", Placeholders[1], Placeholders[2]}] : n \in 0..MaxTokens}

RestoreInit ==
  /\ calc \in {[fn |-> "restoreCodeBlocks",
                input |-> [html |-> h, codeBlocks |-> m], out |-> <<>>] :
                 h \in PlaceholderMarkups, m \in CodeBlockMaps}
  /\ CacheIdle
  /\ SearchIdle
  /\ ReadIdle

RestoreCodeBlocks ==
  /\ calc.fn = "restoreCodeBlocks"
  /\ calc.out = <<>>
  /\ calc' = [calc EXCEPT
                !.out = <<restoreCodeBlocks(calc.input.html, calc.input.codeBlocks, 1)>>]
  /\ UNCHANGED <<cacheVars, searchVars, readVars, handlerVars, logVars>>

RestoreNext == RestoreCodeBlocks

RestoreSpec == RestoreInit /\ [][RestoreNext]_vars

\* C26: restoreCodeBlocks returns the markup with every placeholder of the
\* map replaced by its saved markup, token for token, and returns the same
\* when the entries of the map are applied in the opposite order.
C26_RestoreIsLiteral ==
  (calc.fn = "restoreCodeBlocks" /\ calc.out # <<>>)
    => LET h == calc.input.html
           m == calc.input.codeBlocks
           saved(t) == IF \E i \in 1..Len(m) : m[i].placeholder = t
                       THEN m[CHOOSE i \in 1..Len(m) : m[i].placeholder = t].originalCode
                       ELSE <<t>>
           literal[n \in 0..Len(h)] == IF n = 0 THEN <<>> ELSE literal[n - 1] \o saved(h[n])
           reversed == [i \in 1..Len(m) |-> m[Len(m) + 1 - i]]
       IN /\ calc.out[1] = literal[Len(h)]
          /\ calc.out[1] = restoreCodeBlocks(h, reversed, 1)

====
